---- MODULE Spec2Model ----
(***************************************************************************)
(* Marker reconciliation and animation engine of the live bus map          *)
(* (src/components/BusMarkerLayer.vue) together with its viewport-busy     *)
(* gate, the map widget it drives and the browser's animation-frame queue. *)
(*                                                                         *)
(* Coordinates are JavaScript numbers.  They are carried here in a binary  *)
(* floating-point format with Precision significant bits, each value held  *)
(* as an integer multiple of the smallest step 2^-FracBits, and every      *)
(* arithmetic operation rounds to nearest, ties to even, as IEEE 754 does. *)
(* Times are milliseconds and are exact.  The code reads the clock only as *)
(* min((now - animStart) / ANIM_MS, 1), so the state keeps the difference  *)
(* now - animStart, saturated at ANIM_MS, instead of the two instants.     *)
(***************************************************************************)
EXTENDS Integers, Sequences, FiniteSets, Bags, TLC

\* ------------------------------------------------------------------------
\* Bounds of the model
\* ------------------------------------------------------------------------
Precision == 3
FracBits == 2
MaxLen == 2
FramesPerAnim == 2
MaxMoving == 2

\* ------------------------------------------------------------------------
\* Program constants
\* ------------------------------------------------------------------------
ANIM_MS == 2200

\* Time between two frames of the display.
FrameMs == ANIM_MS \div FramesPerAnim

\* ------------------------------------------------------------------------
\* Number arithmetic (round to nearest, ties to even)
\* ------------------------------------------------------------------------
Abs(x) == IF x < 0 THEN -x ELSE x

One == 2 ^ FracBits

RECURSIVE QuantumFrom(_, _, _)
QuantumFrom(p, q, u) ==
  IF Abs(p) < (2 ^ Precision) * u * q THEN u ELSE QuantumFrom(p, q, 2 * u)

\* The representable value nearest to the rational p/q (q > 0), in steps.
RoundNearest(p, q) ==
  LET u == QuantumFrom(p, q, 1)
      d == q * u
      m == Abs(p) \div d
      r == Abs(p) - m * d
      k == IF 2 * r < d THEN m
           ELSE IF 2 * r > d THEN m + 1
           ELSE IF m % 2 = 0 THEN m ELSE m + 1
  IN  IF p < 0 THEN -(k * u) ELSE k * u

\* The same, with the operand computed once before it is rounded.
RoundDiv(p, q) == CHOOSE r \in {RoundNearest(x, q) : x \in {p}} : TRUE

FAdd(a, b) == RoundDiv(a + b, 1)
FSub(a, b) == RoundDiv(a - b, 1)
FMul(a, b) == RoundDiv(a * b, One)
FMin(a, b) == IF a < b THEN a ELSE b


\* ------------------------------------------------------------------------
\* Data: vehicle fixes and snapshots (props.vehicles)
\* ------------------------------------------------------------------------
VehicleIds == {"veh1", "veh2"}

Fix(i, lat, lng, b) ==
  [id |-> i, latitude |-> lat, longitude |-> lng, bearing |-> b,
   lineColor |-> "c62828", lineName |-> "C3"]

\* The fixes the polls deliver, coordinates in steps (1.0 is 4 steps):
\* veh1 is seen at (1.0, 1.0) and at (10.0, 8.0), veh2 stands at (1.0, 8.0)
\* and turns from bearing 0 to bearing 90.
Fixes ==
  { Fix("veh1", 4, 4, 0), Fix("veh1", 40, 32, 0),
    Fix("veh2", 4, 32, 0), Fix("veh2", 4, 32, 90) }

RECURSIVE SeqsUpTo(_, _)
SeqsUpTo(S, n) ==
  IF n = 0 THEN {<<>>}
  ELSE LET shorter == SeqsUpTo(S, n - 1)
       IN  shorter \cup {Append(q, e) : q \in {r \in shorter : Len(r) = n - 1}, e \in S}

Snapshots == SeqsUpTo(Fixes, MaxLen)

\* An optional value: None, or Some(v).
None == <<>>
Some(v) == <<v>>

NoMarkers == [i \in {} |-> 0]

\* ------------------------------------------------------------------------
\* State
\* ------------------------------------------------------------------------
VARIABLES
  registry,         \* Map<vehicleId, entry>
  widget,           \* markers attached to the map: id -> what the map shows
  mapBusy,          \* the gate: TRUE while Busy
  pendingVehicles,  \* snapshot buffered while Busy (None when null)
  animFrameId,      \* handle of the scheduled frame, 0 when null
  elapsed,          \* performance.now() - animStart, saturated at ANIM_MS
  rafQueue,         \* frame callbacks the browser still holds
  moving,           \* viewport transitions started and not yet ended
  calls,            \* widget calls issued by the last handler (a bag)
  applied,          \* snapshots the last handler reconciled, in order
  moved,            \* vehicles moved by a frame since the last reconciliation
  op,               \* the last handler run
  arg               \* the snapshot handed to it (None when it takes none)

\* The marker layer is mounted: its watcher and its gate listeners are live.
VARIABLES
  mounted

\* State of the store (defineStore('bus')) and of the page that watches it.
VARIABLES
  selectedLineIds,  \* Set<string>
  storeVehicles,    \* store.vehicles: the last response written
  error,            \* None when null
  pollTimer,        \* TRUE while the interval timer exists (_pollTimer)
  intervals,        \* interval timers the browser holds for the store
  isPolling,
  lineRoutes,       \* keys of the route cache
  inflight,         \* fetchVehiclePositions calls awaited, by their lineIds
  routeFetches,     \* fetchLineDirections calls awaited, by line
  watched           \* activeLineCount as the page's watcher last saw it

\* A call of a function of the program and what it returned.
VARIABLES
  call,
  returned

engineVars == <<registry, widget, mapBusy, pendingVehicles, animFrameId,
                elapsed, rafQueue, moving, calls, applied, moved, op, arg,
                mounted>>

storeVars == <<selectedLineIds, storeVehicles, error, pollTimer, intervals,
               isPolling, lineRoutes, inflight, routeFetches, watched>>

callVars == <<call, returned>>

\* State of one route drawer (LineRoute) on the same map.
VARIABLES
  propsRouteData,   \* props.routeData (None when null)
  propsDirection,   \* props.direction
  markers,          \* stop and terminus markers the drawer has on the map
  layerIds          \* line layers the drawer has on the map

drawVars == <<propsRouteData, propsDirection, markers, layerIds>>

vars == <<engineVars, storeVars, callVars, drawVars>>

\* The engine's state as one record, threaded through the handlers.
Engine ==
  [registry |-> registry, widget |-> widget, mapBusy |-> mapBusy,
   pendingVehicles |-> pendingVehicles, animFrameId |-> animFrameId,
   elapsed |-> elapsed, rafQueue |-> rafQueue,
   calls |-> EmptyBag, applied |-> <<>>]

Call(kind, id) == SetToBag({<<kind, id>>})

CountCalls(b, kind, id) ==
  IF <<kind, id>> \in DOMAIN b THEN b[<<kind, id>>] ELSE 0

\* ------------------------------------------------------------------------
\* Animation-frame queue of the browser
\* ------------------------------------------------------------------------
FreshFrameId(q) == CHOOSE n \in 1..(Cardinality(q) + 1) : n \notin q

requestAnimationFrame(s) ==
  LET id == FreshFrameId(s.rafQueue)
  IN  [s EXCEPT !.rafQueue = @ \cup {id}, !.animFrameId = id]

cancelAnimationFrame(s, id) == [s EXCEPT !.rafQueue = @ \ {id}]

\* ------------------------------------------------------------------------
\* Animation loop
\* ------------------------------------------------------------------------
cancelAnim(s) ==
  IF s.animFrameId # 0
  THEN [cancelAnimationFrame(s, s.animFrameId) EXCEPT !.animFrameId = 0]
  ELSE s

\* startAnim without its cancelAnim.
startAnim_NoCancel(s) ==
  IF s.mapBusy THEN s
  ELSE requestAnimationFrame([s EXCEPT !.elapsed = 0])

startAnim(s) ==
  LET c == cancelAnim(s)
  IN  IF c.mapBusy THEN c
      ELSE requestAnimationFrame([c EXCEPT !.elapsed = 0])

Settled(e) == e.lat = e.dstLat /\ e.lng = e.dstLng

TickT(s) == FMin(RoundDiv(s.elapsed * One, ANIM_MS), One)

Ease(t) == FMul(t, FSub(2 * One, t))

Lerp(src, dst, ease) == FAdd(src, FMul(FSub(dst, src), ease))

\* `if (s.lat === s.dstLat && s.lng === s.dstLng) continue`
Unsettled_All(reg) == DOMAIN reg

Unsettled(reg) == {i \in DOMAIN reg : ~Settled(reg[i])}

\* marker.setLngLat([newLng, newLat])
MoveMarker(m, e, ease) ==
  [m EXCEPT !.lat = Lerp(e.srcLat, e.dstLat, ease),
            !.lng = Lerp(e.srcLng, e.dstLng, ease)]

\* `if (t >= 1) { s.lat = s.dstLat; s.lng = s.dstLng }`
Snap(e, t) ==
  IF t >= One THEN [e EXCEPT !.lat = e.dstLat, !.lng = e.dstLng] ELSE e

RECURSIVE MoveCalls(_)
MoveCalls(ids) ==
  IF ids = {} THEN EmptyBag
  ELSE LET i == CHOOSE j \in ids : TRUE
       IN  Call("move", i) (+) MoveCalls(ids \ {i})

tick(s) ==
  IF s.mapBusy THEN [s EXCEPT !.animFrameId = 0]
  ELSE
    LET t == TickT(s)
        ease == Ease(t)
        reg == s.registry
        unsettled == Unsettled(reg)
        frame ==
          [s EXCEPT
             !.widget = [i \in DOMAIN s.widget |->
                           IF i \in unsettled
                           THEN MoveMarker(s.widget[i], reg[i], ease)
                           ELSE s.widget[i]],
             !.registry = [i \in DOMAIN reg |->
                             IF i \in unsettled THEN Snap(reg[i], t) ELSE reg[i]],
             !.calls = @ (+) MoveCalls(unsettled)]
    IN  IF t < One THEN requestAnimationFrame(frame)
        ELSE [frame EXCEPT !.animFrameId = 0]

\* ------------------------------------------------------------------------
\* Diff-sync: reconcile the registry with an incoming vehicle array
\* ------------------------------------------------------------------------
\* The comparison without the bearing.
VisualChanged_NoBearing(existing, v) ==
  \/ existing.color # v.lineColor
  \/ existing.lineName # v.lineName

VisualChanged(existing, v) ==
  \/ existing.bearing # v.bearing
  \/ existing.color # v.lineColor
  \/ existing.lineName # v.lineName

\* UPDATE existing marker, the destination kept when the entry is on its way.
UpdateEntry_KeepsTarget(existing, v) ==
  LET shown == IF VisualChanged(existing, v)
               THEN [existing EXCEPT !.bearing = v.bearing,
                                     !.color = v.lineColor,
                                     !.lineName = v.lineName]
               ELSE existing
  IN  IF Settled(existing)
      THEN [shown EXCEPT !.srcLat = existing.lat, !.srcLng = existing.lng,
                         !.dstLat = v.latitude, !.dstLng = v.longitude]
      ELSE [shown EXCEPT !.srcLat = existing.lat, !.srcLng = existing.lng]

\* UPDATE existing marker, the source of the last animation kept.
UpdateEntry_KeepsSource(existing, v) ==
  LET shown == IF VisualChanged(existing, v)
               THEN [existing EXCEPT !.bearing = v.bearing,
                                     !.color = v.lineColor,
                                     !.lineName = v.lineName]
               ELSE existing
  IN  [shown EXCEPT !.dstLat = v.latitude, !.dstLng = v.longitude]

\* UPDATE existing marker.
UpdateEntry(existing, v) ==
  LET shown == IF VisualChanged(existing, v)
               THEN [existing EXCEPT !.bearing = v.bearing,
                                     !.color = v.lineColor,
                                     !.lineName = v.lineName]
               ELSE existing
  IN  [shown EXCEPT !.srcLat = existing.lat, !.srcLng = existing.lng,
                    !.dstLat = v.latitude, !.dstLng = v.longitude]

\* updateElement(existing.element, ...)
UpdateMarker(m, v) ==
  [m EXCEPT !.bearing = v.bearing, !.color = v.lineColor, !.lineName = v.lineName]

\* ADD new marker, its animation starting from the origin.
NewEntry_FromOrigin(v) ==
  [lat |-> 0, lng |-> 0,
   srcLat |-> 0, srcLng |-> 0,
   dstLat |-> v.latitude, dstLng |-> v.longitude,
   bearing |-> v.bearing, color |-> v.lineColor, lineName |-> v.lineName]

\* ADD new marker.
NewEntry(v) ==
  [lat |-> v.latitude, lng |-> v.longitude,
   srcLat |-> v.latitude, srcLng |-> v.longitude,
   dstLat |-> v.latitude, dstLng |-> v.longitude,
   bearing |-> v.bearing, color |-> v.lineColor, lineName |-> v.lineName]

NewMarker(v) ==
  [lat |-> v.latitude, lng |-> v.longitude,
   bearing |-> v.bearing, color |-> v.lineColor, lineName |-> v.lineName]

SyncFix_AlwaysAdds(s, v) ==
  [s EXCEPT
     !.registry = (v.id :> NewEntry(v)) @@ @,
     !.widget = (v.id :> NewMarker(v)) @@ @,
     !.calls = @ (+) Call("place", v.id)]

\* One iteration of `for (const v of vehicles)`.
SyncFix(s, v) ==
  IF v.id \in DOMAIN s.registry
  THEN LET existing == s.registry[v.id]
           changed == VisualChanged(existing, v)
       IN  [s EXCEPT
              !.registry = [@ EXCEPT ![v.id] = UpdateEntry(existing, v)],
              !.widget = IF changed /\ v.id \in DOMAIN @
                         THEN [@ EXCEPT ![v.id] = UpdateMarker(@, v)]
                         ELSE @,
              !.calls = IF changed
                        THEN @ (+) Call("update", v.id) (+) Call("popup", v.id)
                        ELSE @ (+) Call("popup", v.id)]
  ELSE [s EXCEPT
          !.registry = (v.id :> NewEntry(v)) @@ @,
          !.widget = (v.id :> NewMarker(v)) @@ @,
          !.calls = @ (+) Call("place", v.id)]

RECURSIVE SyncFixes(_, _)
SyncFixes(s, vehicles) ==
  IF vehicles = <<>> THEN s
  ELSE SyncFixes(SyncFix(s, Head(vehicles)), Tail(vehicles))

IncomingIds(vehicles) == {vehicles[k].id : k \in DOMAIN vehicles}

RECURSIVE RemoveCalls(_)
RemoveCalls(ids) ==
  IF ids = {} THEN EmptyBag
  ELSE LET i == CHOOSE j \in ids : TRUE
       IN  Call("remove", i) (+) RemoveCalls(ids \ {i})

RemoveStale_KeepsMarker(s, incomingIds) ==
  LET stale == DOMAIN s.registry \ incomingIds
  IN  [s EXCEPT
         !.registry = [i \in DOMAIN @ \ stale |-> @[i]],
         !.calls = @ (+) RemoveCalls(stale)]

\* REMOVE stale markers.
RemoveStale(s, incomingIds) ==
  LET stale == DOMAIN s.registry \ incomingIds
  IN  [s EXCEPT
         !.registry = [i \in DOMAIN @ \ stale |-> @[i]],
         !.widget = [i \in DOMAIN @ \ stale |-> @[i]],
         !.calls = @ (+) RemoveCalls(stale)]

\* The part of sync that runs when the gate lets it through.
Reconcile(s, vehicles) ==
  startAnim(RemoveStale(SyncFixes([s EXCEPT !.applied = Append(@, vehicles)],
                                  vehicles),
                        IncomingIds(vehicles)))

sync_IgnoresGate(s, vehicles) == Reconcile(s, vehicles)

sync_KeepsFirstBuffered(s, vehicles) ==
  IF s.mapBusy
  THEN IF s.pendingVehicles = None
       THEN [s EXCEPT !.pendingVehicles = Some(vehicles)]
       ELSE s
  ELSE Reconcile(s, vehicles)

\* sync that keeps the snapshot in the buffer also when the gate is Idle.
sync_BuffersWhenIdle(s, vehicles) ==
  IF s.mapBusy
  THEN [s EXCEPT !.pendingVehicles = Some(vehicles)]
  ELSE Reconcile([s EXCEPT !.pendingVehicles = Some(vehicles)], vehicles)

sync(s, vehicles) ==
  IF s.mapBusy
  THEN [s EXCEPT !.pendingVehicles = Some(vehicles)]
  ELSE Reconcile(s, vehicles)

\* ------------------------------------------------------------------------
\* Map-event guards
\* ------------------------------------------------------------------------
\* onBusy without cancelAnim.
onBusy_KeepsFrame(s) == [s EXCEPT !.mapBusy = TRUE]

onBusy(s) == cancelAnim([s EXCEPT !.mapBusy = TRUE])

onIdle_SyncBeforeIdle(s) ==
  IF s.pendingVehicles # None
  THEN [sync([s EXCEPT !.pendingVehicles = None], s.pendingVehicles[1])
          EXCEPT !.mapBusy = FALSE]
  ELSE [s EXCEPT !.mapBusy = FALSE]

onIdle_KeepsBuffer(s) ==
  LET idle == [s EXCEPT !.mapBusy = FALSE]
  IN  IF idle.pendingVehicles # None
      THEN sync(idle, idle.pendingVehicles[1])
      ELSE idle

\* onIdle that restarts the clock when nothing is buffered.
onIdle_RestartsClock(s) ==
  LET idle == [s EXCEPT !.mapBusy = FALSE]
  IN  IF idle.pendingVehicles # None
      THEN sync([idle EXCEPT !.pendingVehicles = None], idle.pendingVehicles[1])
      ELSE startAnim(idle)

onIdle(s) ==
  LET idle == [s EXCEPT !.mapBusy = FALSE]
  IN  IF idle.pendingVehicles # None
      THEN sync([idle EXCEPT !.pendingVehicles = None], idle.pendingVehicles[1])
      ELSE idle

\* ------------------------------------------------------------------------
\* Teardown
\* ------------------------------------------------------------------------
\* onBeforeUnmount without cancelAnim.
onBeforeUnmount_KeepsClock(s) ==
  [s EXCEPT
     !.registry = NoMarkers,
     !.widget = [i \in DOMAIN @ \ DOMAIN s.registry |-> @[i]],
     !.calls = @ (+) RemoveCalls(DOMAIN s.registry)]

\* onBeforeUnmount; the listeners it detaches are the variable mounted.
onBeforeUnmount(s) ==
  LET c == cancelAnim(s)
  IN  [c EXCEPT
         !.registry = NoMarkers,
         !.widget = [i \in DOMAIN @ \ DOMAIN c.registry |-> @[i]],
         !.calls = @ (+) RemoveCalls(DOMAIN c.registry)]

\* The map view's onBeforeUnmount: map.remove() takes the map away, and with
\* it every marker that was on it; the registry still holds their handles.
mapRemove(s) == [s EXCEPT !.widget = NoMarkers]

\* ------------------------------------------------------------------------
\* Actions
\* ------------------------------------------------------------------------
EngineInit ==
  /\ registry = NoMarkers
  /\ widget = NoMarkers
  /\ mapBusy = FALSE
  /\ pendingVehicles = None
  /\ animFrameId = 0
  /\ elapsed = 0
  /\ rafQueue = {}
  /\ moving = 0
  /\ calls = EmptyBag
  /\ applied = <<>>
  /\ moved = {}
  /\ op = "init"
  /\ arg = None
  /\ mounted = TRUE

\* The store as defineStore's state() builds it; the page has just mounted.
StoreInit ==
  /\ selectedLineIds = {}
  /\ storeVehicles = <<>>
  /\ error = None
  /\ pollTimer = FALSE
  /\ intervals = 0
  /\ isPolling = FALSE
  /\ lineRoutes = {}
  /\ inflight = EmptyBag
  /\ routeFetches = {}
  /\ watched = 0

NoCall ==
  /\ call = None
  /\ returned = None

\* No line is selected: the page renders no route drawer.
NoRoute ==
  /\ propsRouteData = None
  /\ propsDirection = "both"
  /\ markers = <<>>
  /\ layerIds = <<>>

Init == EngineInit /\ StoreInit /\ NoCall /\ NoRoute

\* The handler's result becomes the next state.
Becomes(s) ==
  /\ registry' = s.registry
  /\ widget' = s.widget
  /\ mapBusy' = s.mapBusy
  /\ pendingVehicles' = s.pendingVehicles
  /\ animFrameId' = s.animFrameId
  /\ elapsed' = s.elapsed
  /\ rafQueue' = s.rafQueue
  /\ calls' = s.calls
  /\ applied' = s.applied
  /\ moved' = IF s.applied # <<>> THEN {}
               ELSE moved \cup {i \in VehicleIds : CountCalls(s.calls, "move", i) > 0}
  /\ UNCHANGED <<storeVars, callVars, drawVars>>

\* watch(() => props.vehicles, (v) => sync(v))
Sync(v) ==
  /\ mounted
  /\ Becomes(sync(Engine, v))
  /\ op' = "sync"
  /\ arg' = Some(v)
  /\ UNCHANGED <<moving, mounted>>

\* The map fires movestart.
MoveStart ==
  /\ moving < MaxMoving
  /\ moving' = moving + 1
  /\ IF mounted THEN Becomes(onBusy(Engine)) /\ op' = "movestart"
                ELSE Becomes(Engine) /\ op' = "detached"
  /\ arg' = None
  /\ UNCHANGED mounted

\* The map fires moveend.
MoveEnd ==
  /\ moving > 0
  /\ moving' = moving - 1
  /\ IF mounted THEN Becomes(onIdle(Engine)) /\ op' = "moveend"
                ELSE Becomes(Engine) /\ op' = "detached"
  /\ arg' = None
  /\ UNCHANGED mounted

\* The browser runs a frame callback it holds.
Frame(id) ==
  /\ id \in rafQueue
  /\ op' = "frame"
  /\ arg' = None
  /\ UNCHANGED <<moving, mounted>>
  /\ Becomes(tick([Engine EXCEPT !.rafQueue = @ \ {id}]))

\* Time passes.
Elapse ==
  /\ elapsed < ANIM_MS
  /\ elapsed' = IF elapsed + FrameMs < ANIM_MS THEN elapsed + FrameMs ELSE ANIM_MS
  /\ calls' = EmptyBag
  /\ applied' = <<>>
  /\ op' = "elapse"
  /\ arg' = None
  /\ UNCHANGED <<registry, widget, mapBusy, pendingVehicles, animFrameId,
                 rafQueue, moving, moved, mounted>>
  /\ UNCHANGED <<storeVars, callVars, drawVars>>

\* The marker layer is unmounted: onBeforeUnmount runs, its listeners are off
\* the map and its watcher is stopped.
Unmount ==
  /\ mounted
  /\ mounted' = FALSE
  /\ Becomes(onBeforeUnmount(Engine))
  /\ op' = "unmount"
  /\ arg' = None
  /\ UNCHANGED moving

\* The page is left: the map view is the parent of the marker layer, so its
\* onBeforeUnmount runs first and the marker layer's runs next, in one flush.
PageUnmount ==
  /\ mounted
  /\ mounted' = FALSE
  /\ Becomes(onBeforeUnmount(mapRemove(Engine)))
  /\ op' = "pageunmount"
  /\ arg' = None
  /\ UNCHANGED moving

Next ==
  \/ \E v \in Snapshots : Sync(v)
  \/ MoveStart
  \/ MoveEnd
  \/ \E id \in rafQueue : Frame(id)
  \/ Elapse

Spec == Init /\ [][Next]_vars

\* The browser keeps delivering the frames it holds and time keeps passing.
\* Handles the browser gives out: at most one frame is held at a time.
FrameIds == 1..2

FairSpec ==
  /\ Spec
  /\ \A id \in FrameIds : WF_vars(Frame(id))
  /\ WF_vars(Elapse)

\* The marker layer with its teardown.
LifeSpec == Init /\ [][Next \/ Unmount]_vars

\* The marker layer inside its page: the page can be left at any time.
PageSpec == Init /\ [][Next \/ PageUnmount]_vars

\* ------------------------------------------------------------------------
\* Shape of the state
\* ------------------------------------------------------------------------
TypeOK ==
  /\ DOMAIN registry \subseteq VehicleIds
  /\ DOMAIN widget \subseteq VehicleIds
  /\ mapBusy \in BOOLEAN
  /\ pendingVehicles \in {None} \cup {Some(v) : v \in Snapshots}
  /\ animFrameId \in 0..2
  /\ elapsed \in 0..ANIM_MS
  /\ rafQueue \subseteq 1..2
  /\ moving \in 0..MaxMoving
  /\ moved \subseteq VehicleIds
  /\ op \in {"init", "sync", "movestart", "moveend", "frame", "elapse",
            "unmount", "detached", "pageunmount", "routeData",
            "direction"}
  /\ mounted \in BOOLEAN
  /\ propsDirection \in {"both", "outward", "return"}
  /\ Len(layerIds) \in {0, 2}

\* ------------------------------------------------------------------------
\* The lines of the network and the API client (src/api/tcl.js)
\* ------------------------------------------------------------------------
MAX_SELECTED == 3

\* Fetches of vehicle positions awaited at one time.
MaxFetches == 2

\* A line as the API lists it; sName is its letters and its number.
Line(id, letters, number, mode) ==
  [id |-> id, sName |-> <<letters, number>>, mode |-> mode]

\* state.lines once loadLines has resolved, in the API's order.
lines ==
  << Line("line:SYTNEX:C13", "C", 13, "BUS"),
     Line("line:SYTNEX:T1", "T", 1, "TRAMWAY"),
     Line("line:SYTNEX:C3", "C", 3, "BUS"),
     Line("line:SYTNEX:C1", "C", 1, "BUS") >>

LineIds == {lines[k].id : k \in DOMAIN lines}

\* lineMap: the line of an identifier.
lineMap(lineId) == lines[CHOOSE k \in DOMAIN lines : lines[k].id = lineId]

\* Collation rank of the letters of a short name.
Collate(letters) == IF letters = "C" THEN 1 ELSE 2

\* aName.localeCompare(bName, 'fr', { numeric: true }) <= 0
localeCompare(a, b) ==
  \/ Collate(a.sName[1]) < Collate(b.sName[1])
  \/ /\ Collate(a.sName[1]) = Collate(b.sName[1])
     /\ a.sName[2] <= b.sName[2]

busLines ==
  SortSeq(SelectSeq(lines, LAMBDA l : l.mode = "BUS"), localeCompare)

Directions == <<"outward", "return">>

\* The requests fetchVehiclePositions issues, in order: for each line the
\* outward one (lineIdsOutward) and the return one (lineIdsReturn).
requests(lineIds) ==
  [j \in 1..(2 * Len(lineIds)) |->
     [lineId |-> lineIds[(j + 1) \div 2], direction |-> Directions[2 - (j % 2)]]]

\* What get() settles with: a rejection, or the parsed JSON body, which is
\* an array of vehicles or something else.
Rejected == [ok |-> FALSE, array |-> FALSE, items |-> <<>>]
JsonObject == [ok |-> TRUE, array |-> FALSE, items |-> <<>>]
JsonArray(items) == [ok |-> TRUE, array |-> TRUE, items |-> items]

\* A vehicle as the API returns it.  It names no line; its identifier is
\* the course it runs, which is how the server picked it for a request.
Raw(r) == [id |-> <<r.lineId, r.direction>>]

\* The ways a request can settle, and the reply of each.
Settlements == {"rejected", "object", "empty", "vehicle"}

\* Those the store is run against.
Outcomes == {"rejected", "vehicle"}

Reply(r, how) ==
  CASE how = "rejected" -> Rejected
    [] how = "object" -> JsonObject
    [] how = "empty" -> JsonArray(<<>>)
    [] how = "vehicle" -> JsonArray(<<Raw(r)>>)

\* .then((list) => (Array.isArray(list) ? list : []).map(...)).catch(() => [])
Tagged(reply, lineId, direction) ==
  IF reply.ok /\ reply.array
    THEN [k \in DOMAIN reply.items |->
            [id |-> reply.items[k].id, lineId |-> lineId, direction |-> direction]]
    ELSE <<>>

RECURSIVE Flat(_)
Flat(lists) ==
  IF lists = <<>> THEN <<>> ELSE Head(lists) \o Flat(Tail(lists))

\* One request per direction for all the lines together, the vehicles
\* tagged with their direction only.
fetchVehiclePositions_Combined(lineIds, replies) ==
  IF Len(lineIds) = 0
    THEN [requests |-> <<>>, rejected |-> FALSE, value |-> <<>>]
    ELSE LET reqs == [j \in 1..2 |-> [lineId |-> "joined", direction |-> Directions[j]]]
             results == [j \in DOMAIN reqs |->
                           Tagged(replies[j], "undefined", reqs[j].direction)]
         IN  [requests |-> reqs,
              rejected |-> \E j \in DOMAIN reqs : ~replies[j].ok,
              value |-> Flat(results)]

\* fetchVehiclePositions(lineIds) once every request has settled with
\* replies[j]: the requests it issued and what its promise settles with.
fetchVehiclePositions(lineIds, replies) ==
  IF Len(lineIds) = 0
    THEN [requests |-> <<>>, rejected |-> FALSE, value |-> <<>>]
    ELSE LET reqs == requests(lineIds)
             results == [j \in DOMAIN reqs |->
                           Tagged(replies[j], reqs[j].lineId, reqs[j].direction)]
         IN  [requests |-> reqs, rejected |-> FALSE, value |-> Flat(results)]

\* Every way the requests of one call can settle, each as one of hows.
RepliesTo(lineIds, hows) ==
  LET reqs == requests(lineIds)
  IN  {[j \in DOMAIN reqs |-> Reply(reqs[j], f[j])] : f \in [DOMAIN reqs -> hows]}

\* Lines asked for in one call.
MaxLines == 2

RECURSIVE Distinct(_)
Distinct(seq) ==
  \/ seq = <<>>
  \/ /\ \A k \in 2..Len(seq) : seq[k] # Head(seq)
     /\ Distinct(Tail(seq))

LineLists == {l \in SeqsUpTo(LineIds, MaxLines) : Distinct(l)}

\* fetchVehiclePositions is called with call.lineIds; its requests settle.
ApiInit ==
  /\ EngineInit
  /\ StoreInit
  /\ NoRoute
  /\ call \in {Some([fn |-> "fetchVehiclePositions", lineIds |-> l]) : l \in LineLists}
  /\ returned = None

FetchVehiclePositions(replies) ==
  /\ returned = None
  /\ returned' = Some([replies |-> replies,
                     settled |-> fetchVehiclePositions(call[1].lineIds, replies)])
  /\ UNCHANGED <<engineVars, storeVars, call, drawVars>>

ApiNext ==
  \E replies \in RepliesTo(call[1].lineIds, Settlements) :
    FetchVehiclePositions(replies)

ApiSpec == ApiInit /\ [][ApiNext]_vars

\* The settlements the store is run against: within one call the requests
\* of a direction all settle the same way.
SettledByDirection(lineIds) ==
  LET reqs == requests(lineIds)
  IN  {[j \in DOMAIN reqs |-> Reply(reqs[j], how[reqs[j].direction])] :
         how \in [{"outward", "return"} -> Outcomes]}

\* ------------------------------------------------------------------------
\* The store (defineStore('bus'))
\* ------------------------------------------------------------------------
Store ==
  [selectedLineIds |-> selectedLineIds, vehicles |-> storeVehicles,
   error |-> error, pollTimer |-> pollTimer, intervals |-> intervals,
   isPolling |-> isPolling,
   lineRoutes |-> lineRoutes, inflight |-> inflight,
   routeFetches |-> routeFetches]

\* [...set]: the members of a Set as an array.  The code lists them in
\* insertion order; here they are listed in the order of state.lines.
spread(set) ==
  LET ids == [k \in DOMAIN lines |-> lines[k].id]
  IN  SelectSeq(ids, LAMBDA id : id \in set)

activeLineCount(s) == Cardinality(s.selectedLineIds)

\* fetchVehicles up to its await.
fetchVehicles(s) ==
  LET ids == spread(s.selectedLineIds)
  IN  IF Len(ids) = 0
        THEN [s EXCEPT !.vehicles = <<>>]
        ELSE [s EXCEPT !.inflight = @ (+) SetToBag({ids})]

\* fetchVehicles from its await on, a response being written only when no
\* vehicles are stored.
fetchVehiclesSettled_FirstWins(s, settled) ==
  IF settled.rejected
    THEN [s EXCEPT !.error = Some("Failed to fetch vehicles")]
    ELSE IF s.vehicles = <<>>
      THEN [s EXCEPT !.vehicles = settled.value, !.error = None]
      ELSE [s EXCEPT !.error = None]

\* fetchVehicles from its await on, fetchVehiclePositions having settled.
fetchVehiclesSettled(s, settled) ==
  IF settled.rejected
    THEN [s EXCEPT !.error = Some("Failed to fetch vehicles")]
    ELSE [s EXCEPT !.vehicles = settled.value, !.error = None]

\* loadLineRoute up to its await.
loadLineRoute(s, lineId) ==
  IF lineId \in s.lineRoutes THEN s
  ELSE [s EXCEPT !.routeFetches = @ \cup {lineId}]

\* loadLineRoute from its await on.
loadLineRouteSettled(s, lineId, ok) ==
  IF ok THEN [s EXCEPT !.lineRoutes = @ \cup {lineId}] ELSE s

\* toggleLine without its limit.
toggleLine_NoLimit(s, lineId) ==
  IF lineId \in s.selectedLineIds
    THEN fetchVehicles([s EXCEPT !.selectedLineIds = @ \ {lineId}])
    ELSE fetchVehicles(
           loadLineRoute([s EXCEPT !.selectedLineIds = @ \cup {lineId}], lineId))

toggleLine(s, lineId) ==
  IF lineId \in s.selectedLineIds
    THEN fetchVehicles([s EXCEPT !.selectedLineIds = @ \ {lineId}])
    ELSE IF Cardinality(s.selectedLineIds) >= MAX_SELECTED
           THEN s
           ELSE fetchVehicles(
                  loadLineRoute([s EXCEPT !.selectedLineIds = @ \cup {lineId}],
                                lineId))

\* maxReached
maxReached(s) == Cardinality(s.selectedLineIds) >= MAX_SELECTED

\* The line selector's click handler.
handleToggle(s, lineId) ==
  IF maxReached(s) /\ lineId \notin s.selectedLineIds THEN s
  ELSE toggleLine(s, lineId)

RECURSIVE selectEach(_, _)
selectEach(set, ls) ==
  IF ls = <<>> \/ Cardinality(set) >= MAX_SELECTED THEN set
  ELSE selectEach(set \cup {Head(ls).id}, Tail(ls))

selectAll(s) ==
  fetchVehicles([s EXCEPT !.selectedLineIds = selectEach(@, busLines)])

stopPolling(s) ==
  [s EXCEPT !.pollTimer = FALSE,
            !.intervals = IF s.pollTimer THEN @ - 1 ELSE @,
            !.isPolling = FALSE]

\* The interval callback of startPolling.
pollTick(s) == IF activeLineCount(s) > 0 THEN fetchVehicles(s) ELSE s

\* startPolling without `if (this._pollTimer) return`.
startPolling_NoGuard(s) ==
  [fetchVehicles([s EXCEPT !.isPolling = TRUE])
     EXCEPT !.pollTimer = TRUE, !.intervals = @ + 1]

startPolling(s) ==
  IF s.pollTimer THEN s
  ELSE [fetchVehicles([s EXCEPT !.isPolling = TRUE])
          EXCEPT !.pollTimer = TRUE, !.intervals = @ + 1]

clearSelection(s) ==
  stopPolling([s EXCEPT !.selectedLineIds = {}, !.vehicles = <<>>])

\* ------------------------------------------------------------------------
\* The page (views/HomeView.vue)
\* ------------------------------------------------------------------------
\* watch(() => store.activeLineCount, (count) => ...)
\* The watcher's callback without its else branch.
activeLineCountChanged_NeverStops(s, count) ==
  IF count > 0 THEN startPolling(s) ELSE s

activeLineCountChanged(s, count) ==
  IF count > 0 THEN startPolling(s) ELSE stopPolling(s)

\* The watcher has a run queued: it runs before any timer or response.
WatcherPending == activeLineCount(Store) # watched

\* enrichedVehicles: what the page hands to the marker layer.
enrichedVehicles(s) ==
  [k \in DOMAIN s.vehicles |->
     LET v == s.vehicles[k]
         matchedLineId ==
           IF v.lineId \in s.selectedLineIds THEN Some(v.lineId)
           ELSE IF s.selectedLineIds # {} THEN Some(spread(s.selectedLineIds)[1])
           ELSE None
     IN  [id |-> v.id, lineId |-> v.lineId, direction |-> v.direction,
          lineName |-> IF matchedLineId = None THEN <<"?", 0>>
                       ELSE lineMap(matchedLineId[1]).sName]]

\* ------------------------------------------------------------------------
\* Actions of the store, the page's watcher, the timer and the network
\* ------------------------------------------------------------------------
StoreBecomes(s) ==
  /\ BagCardinality(s.inflight) <= MaxFetches
  /\ selectedLineIds' = s.selectedLineIds
  /\ storeVehicles' = s.vehicles
  /\ error' = s.error
  /\ pollTimer' = s.pollTimer
  /\ intervals' = s.intervals
  /\ isPolling' = s.isPolling
  /\ lineRoutes' = s.lineRoutes
  /\ inflight' = s.inflight
  /\ routeFetches' = s.routeFetches
  /\ UNCHANGED <<engineVars, callVars, drawVars>>

ToggleLine(lineId) ==
  /\ StoreBecomes(toggleLine(Store, lineId))
  /\ UNCHANGED watched

\* A click on a line of the selector.
HandleToggle(lineId) ==
  /\ StoreBecomes(handleToggle(Store, lineId))
  /\ UNCHANGED watched

SelectAll ==
  /\ StoreBecomes(selectAll(Store))
  /\ UNCHANGED watched

ClearSelection ==
  /\ StoreBecomes(clearSelection(Store))
  /\ UNCHANGED watched

\* The page's watcher runs.
FlushWatcher ==
  /\ WatcherPending
  /\ StoreBecomes(activeLineCountChanged(Store, activeLineCount(Store)))
  /\ watched' = activeLineCount(Store)

\* The interval timer fires.
PollTick ==
  /\ pollTimer
  /\ ~WatcherPending
  /\ StoreBecomes(pollTick(Store))
  /\ UNCHANGED watched

\* Every request of an awaited fetchVehiclePositions call has settled.
VehiclesSettle(lineIds, replies) ==
  /\ BagIn(lineIds, inflight)
  /\ ~WatcherPending
  /\ StoreBecomes(
       fetchVehiclesSettled([Store EXCEPT !.inflight = @ (-) SetToBag({lineIds})],
                            fetchVehiclePositions(lineIds, replies)))
  /\ UNCHANGED watched

\* An awaited fetchLineDirections call has settled.
RouteSettle(lineId, ok) ==
  /\ lineId \in routeFetches
  /\ ~WatcherPending
  /\ StoreBecomes(
       loadLineRouteSettled([Store EXCEPT !.routeFetches = @ \ {lineId}],
                            lineId, ok))
  /\ UNCHANGED watched

StoreNext ==
  \/ \E lineId \in LineIds : ToggleLine(lineId)
  \/ \E lineId \in LineIds : HandleToggle(lineId)
  \/ SelectAll
  \/ ClearSelection
  \/ FlushWatcher
  \/ PollTick
  \/ \E lineIds \in BagToSet(inflight) :
       \E replies \in SettledByDirection(lineIds) : VehiclesSettle(lineIds, replies)

StoreSpec == Init /\ [][StoreNext]_vars

\* The store as the page drives it.  Every call of toggleLine, selectAll and
\* clearSelection is made by a click handler, and the watcher's queued run is
\* flushed when that handler returns, before the next click is delivered.
Click ==
  \/ \E lineId \in LineIds : ToggleLine(lineId)
  \/ \E lineId \in LineIds : HandleToggle(lineId)
  \/ SelectAll
  \/ ClearSelection

ClickNext ==
  \/ ~WatcherPending /\ Click
  \/ FlushWatcher
  \/ PollTick
  \/ \E lineIds \in BagToSet(inflight) :
       \E replies \in SettledByDirection(lineIds) : VehiclesSettle(lineIds, replies)

ClickSpec == Init /\ [][ClickNext]_vars

\* ------------------------------------------------------------------------
\* Route geometry and next stop (utils/nextStop)
\* ------------------------------------------------------------------------
\* Coordinates are held in the unit of the encoded polylines, 1e-5 degree,
\* and distances in decimetres.  Over a city haversineDistance is the plane
\* distance with a degree of longitude shorter than a degree of latitude:
\* one unit of latitude is LatScale decimetres, one of longitude LngScale.
LatScale == 10
LngScale == 7

\* The buffer of calculateNextStop, 0.1 km.
BUFFER == 1000

\* Integer square root, to the nearest integer.
RECURSIVE SqrtBetween(_, _, _)
SqrtBetween(x, lo, hi) ==
  IF lo = hi THEN lo
  ELSE LET mid == (lo + hi + 1) \div 2
       IN  IF mid * mid <= x THEN SqrtBetween(x, mid, hi)
           ELSE SqrtBetween(x, lo, mid - 1)

Sqrt(x) ==
  LET r == SqrtBetween(x, 0, 46340)
  IN  IF x - r * r > r THEN r + 1 ELSE r

\* p / q to the nearest integer, q > 0.
Rounded(p, q) == (p + q \div 2) \div q

haversineDistance(lat1, lng1, lat2, lng2) ==
  LET dLat == LatScale * (lat2 - lat1)
      dLng == LngScale * (lng2 - lng1)
  IN  Sqrt(dLat * dLat + dLng * dLng)

projectPointOnSegment(lat, lng, lat1, lng1, lat2, lng2) ==
  LET dx == lng2 - lng1
      dy == lat2 - lat1
      lenSq == dx * dx + dy * dy
      dot == (lng - lng1) * dx + (lat - lat1) * dy
      \* t = Math.max(0, Math.min(1, dot / lenSq)), kept as t * lenSq
      tLen == IF dot < 0 THEN 0 ELSE IF dot > lenSq THEN lenSq ELSE dot
  IN  IF lenSq = 0 THEN [lat |-> lat1, lng |-> lng1]
      ELSE [lat |-> lat1 + Rounded(tLen * dy, lenSq),
            lng |-> lng1 + Rounded(tLen * dx, lenSq)]

\* Distance from the point to segment i of the route.
DistToSegment(routeCoords, i, pointLat, pointLng) ==
  LET proj == projectPointOnSegment(pointLat, pointLng,
                                    routeCoords[i][1], routeCoords[i][2],
                                    routeCoords[i + 1][1], routeCoords[i + 1][2])
  IN  haversineDistance(pointLat, pointLng, proj.lat, proj.lng)

\* The first loop with <= for <: the last of the closest segments wins.
RECURSIVE ClosestFrom_LastOnTie(_, _, _, _, _, _)
ClosestFrom_LastOnTie(routeCoords, i, pointLat, pointLng, minDist, closestIdx) ==
  IF i > Len(routeCoords) - 1 THEN closestIdx
  ELSE LET dist == DistToSegment(routeCoords, i, pointLat, pointLng)
       IN  IF minDist = None \/ dist <= minDist[1]
             THEN ClosestFrom_LastOnTie(routeCoords, i + 1, pointLat, pointLng,
                                        Some(dist), i)
             ELSE ClosestFrom_LastOnTie(routeCoords, i + 1, pointLat, pointLng,
                                        minDist, closestIdx)

\* The first loop of getDistanceAlongRoute, from segment i on.
RECURSIVE ClosestFrom(_, _, _, _, _, _)
ClosestFrom(routeCoords, i, pointLat, pointLng, minDist, closestIdx) ==
  IF i > Len(routeCoords) - 1 THEN closestIdx
  ELSE LET dist == DistToSegment(routeCoords, i, pointLat, pointLng)
       IN  IF minDist = None \/ dist < minDist[1]
             THEN ClosestFrom(routeCoords, i + 1, pointLat, pointLng, Some(dist), i)
             ELSE ClosestFrom(routeCoords, i + 1, pointLat, pointLng, minDist, closestIdx)

\* The second loop: the length of the segments before segment closestIdx.
RECURSIVE LengthBefore(_, _)
LengthBefore(routeCoords, closestIdx) ==
  IF closestIdx <= 1 THEN 0
  ELSE LengthBefore(routeCoords, closestIdx - 1)
       + haversineDistance(routeCoords[closestIdx - 1][1], routeCoords[closestIdx - 1][2],
                           routeCoords[closestIdx][1], routeCoords[closestIdx][2])

\* getDistanceAlongRoute without the length of the segments before the
\* closest one.
getDistanceAlongRoute_PartialOnly(routeCoords, pointLat, pointLng) ==
  IF Len(routeCoords) < 2 THEN 0
  ELSE LET closestIdx == ClosestFrom(routeCoords, 1, pointLat, pointLng, None, 1)
           proj == projectPointOnSegment(
                     pointLat, pointLng,
                     routeCoords[closestIdx][1], routeCoords[closestIdx][2],
                     routeCoords[closestIdx + 1][1], routeCoords[closestIdx + 1][2])
       IN  haversineDistance(routeCoords[closestIdx][1], routeCoords[closestIdx][2],
                             proj.lat, proj.lng)

getDistanceAlongRoute(routeCoords, pointLat, pointLng) ==
  IF Len(routeCoords) < 2 THEN 0
  ELSE LET closestIdx == ClosestFrom(routeCoords, 1, pointLat, pointLng, None, 1)
           proj == projectPointOnSegment(
                     pointLat, pointLng,
                     routeCoords[closestIdx][1], routeCoords[closestIdx][2],
                     routeCoords[closestIdx + 1][1], routeCoords[closestIdx + 1][2])
       IN  LengthBefore(routeCoords, closestIdx)
           + haversineDistance(routeCoords[closestIdx][1], routeCoords[closestIdx][2],
                               proj.lat, proj.lng)

\* An encoded polyline is held as the sequence of its character codes.  One
\* do-while of decodePolyline: the chunks of one number, read from index.
\* Past the end charCodeAt is NaN, which the bit operations take as 0.
RECURSIVE ReadChunks(_, _, _, _)
ReadChunks(encoded, index, shift, result) ==
  LET byte == IF index <= Len(encoded) THEN encoded[index] - 63 ELSE 0
      more == result + (byte % 32) * (2 ^ shift)
  IN  IF byte >= 32 THEN ReadChunks(encoded, index + 1, shift + 5, more)
      ELSE [result |-> more, index |-> index + 1]

\* (result & 1) ? ~(result >> 1) : (result >> 1)
ZigZag(result) ==
  IF result % 2 = 1 THEN -(result \div 2) - 1 ELSE result \div 2

\* The while loop without `lat +=` and `lng +=`: each point is its own delta.
RECURSIVE DecodeFrom_NoSum(_, _, _, _)
DecodeFrom_NoSum(encoded, index, lat, lng) ==
  IF index > Len(encoded) THEN <<>>
  ELSE LET a == ReadChunks(encoded, index, 0, 0)
           lat2 == ZigZag(a.result)
           b == ReadChunks(encoded, a.index, 0, 0)
           lng2 == ZigZag(b.result)
       IN  << <<lat2, lng2>> >> \o DecodeFrom_NoSum(encoded, b.index, lat2, lng2)

RECURSIVE DecodeFrom(_, _, _, _)
DecodeFrom(encoded, index, lat, lng) ==
  IF index > Len(encoded) THEN <<>>
  ELSE LET a == ReadChunks(encoded, index, 0, 0)
           lat2 == lat + ZigZag(a.result)
           b == ReadChunks(encoded, a.index, 0, 0)
           lng2 == lng + ZigZag(b.result)
       IN  << <<lat2, lng2>> >> \o DecodeFrom(encoded, b.index, lat2, lng2)

\* The points of an encoded polyline, in units of 1e-5 degree.
decodePolyline(encoded) == DecodeFrom(encoded, 1, 0, 0)

\* The API's encoding of a list of points (Google Encoded Polyline format).
RECURSIVE Chunks(_)
Chunks(v) ==
  IF v >= 32 THEN <<(v % 32) + 32 + 63>> \o Chunks(v \div 32) ELSE <<v + 63>>

Signed(d) == IF d < 0 THEN -2 * d - 1 ELSE 2 * d

RECURSIVE EncodeFrom(_, _, _)
EncodeFrom(points, lat, lng) ==
  IF points = <<>> THEN <<>>
  ELSE Chunks(Signed(Head(points)[1] - lat))
       \o Chunks(Signed(Head(points)[2] - lng))
       \o EncodeFrom(Tail(points), Head(points)[1], Head(points)[2])

encodePolyline(points) == EncodeFrom(points, 0, 0)

\* JavaScript values of the route data: dir.shapes is undefined, a string
\* or an array whose entries are strings or not.
Undefined == [type |-> "undefined", value |-> <<>>]
String(codes) == [type |-> "string", value |-> codes]
Array(entries) == [type |-> "array", value |-> entries]

\* The geometry branch of calculateNextStop.
DecodeShapes(dir) ==
  IF dir.shapes.type = "string" /\ dir.shapes.value # <<>>
    THEN decodePolyline(dir.shapes.value)
  ELSE IF dir.shapes.type = "array" /\ dir.shapes.value # <<>>
    THEN Flat([k \in DOMAIN dir.shapes.value |->
                 IF dir.shapes.value[k].type = "string"
                   THEN decodePolyline(dir.shapes.value[k].value)
                   ELSE <<>>])
  ELSE IF dir.geometry # None
    THEN [k \in DOMAIN dir.geometry[1] |->
            <<dir.geometry[1][k][2], dir.geometry[1][k][1]>>]
  ELSE <<>>

\* stop.name || stop.label || '?'
StopName(stop) ==
  IF stop.name # "" THEN stop.name
  ELSE IF stop.label # "" THEN stop.label ELSE "?"

\* The loop with <= for <: the last of two stops at the same distance wins.
RECURSIVE NextStopFrom_LastOnTie(_, _, _, _, _)
NextStopFrom_LastOnTie(stops, routeCoords, vehicleDist, minDistToNext, nextStop) ==
  IF stops = <<>> THEN nextStop
  ELSE LET stop == Head(stops)
           stopDist == getDistanceAlongRoute(routeCoords, stop.lat, stop.lon)
           distToStop == stopDist - vehicleDist
       IN  IF stop.lat = 0 \/ stop.lon = 0
             THEN NextStopFrom_LastOnTie(Tail(stops), routeCoords, vehicleDist,
                                         minDistToNext, nextStop)
           ELSE IF /\ distToStop > -BUFFER
                   /\ minDistToNext = None \/ distToStop <= minDistToNext[1]
             THEN NextStopFrom_LastOnTie(Tail(stops), routeCoords, vehicleDist,
                                         Some(distToStop), Some(StopName(stop)))
             ELSE NextStopFrom_LastOnTie(Tail(stops), routeCoords, vehicleDist,
                                         minDistToNext, nextStop)

\* The loop of calculateNextStop over the stops still to visit.
RECURSIVE NextStopFrom(_, _, _, _, _)
NextStopFrom(stops, routeCoords, vehicleDist, minDistToNext, nextStop) ==
  IF stops = <<>> THEN nextStop
  ELSE LET stop == Head(stops)
           stopDist == getDistanceAlongRoute(routeCoords, stop.lat, stop.lon)
           distToStop == stopDist - vehicleDist
       IN  IF stop.lat = 0 \/ stop.lon = 0
             THEN NextStopFrom(Tail(stops), routeCoords, vehicleDist,
                               minDistToNext, nextStop)
           ELSE IF /\ distToStop > -BUFFER
                   /\ minDistToNext = None \/ distToStop < minDistToNext[1]
             THEN NextStopFrom(Tail(stops), routeCoords, vehicleDist,
                               Some(distToStop), Some(StopName(stop)))
             ELSE NextStopFrom(Tail(stops), routeCoords, vehicleDist,
                               minDistToNext, nextStop)

\* The directions of the route data: routeData.directions || [routeData].
DirArray(routeData) ==
  IF routeData.directions # None THEN routeData.directions[1]
  ELSE << [stopPoints |-> routeData.stopPoints, shapes |-> routeData.shapes,
           geometry |-> routeData.geometry] >>

\* calculateNextStop without its test of routeCoords.length.
calculateNextStop_AnyGeometry(vehicle, routeData, direction) ==
  IF routeData = None \/ vehicle = None
    THEN [nextStop |-> None, routeCoords |-> <<>>]
  ELSE
    LET dirArray == DirArray(routeData[1])
        dirIndex == IF direction = "return" THEN 1 ELSE 0
    IN  IF dirIndex >= Len(dirArray)
          THEN [nextStop |-> None, routeCoords |-> <<>>]
        ELSE
          LET dir == dirArray[dirIndex + 1]
              routeCoords == DecodeShapes(dir)
          IN  IF dir.stopPoints = None \/ dir.stopPoints = Some(<<>>)
                THEN [nextStop |-> None, routeCoords |-> <<>>]
              ELSE
                [nextStop |->
                   NextStopFrom(dir.stopPoints[1], routeCoords,
                                getDistanceAlongRoute(routeCoords,
                                                      vehicle[1].latitude,
                                                      vehicle[1].longitude),
                                None, None),
                 routeCoords |-> routeCoords]

\* What calculateNextStop returns (None for null), with the coordinates it
\* handed to getDistanceAlongRoute.
calculateNextStop(vehicle, routeData, direction) ==
  IF routeData = None \/ vehicle = None
    THEN [nextStop |-> None, routeCoords |-> <<>>]
  ELSE
    LET dirArray == DirArray(routeData[1])
        dirIndex == IF direction = "return" THEN 1 ELSE 0
    IN  IF dirIndex >= Len(dirArray)
          THEN [nextStop |-> None, routeCoords |-> <<>>]
        ELSE
          LET dir == dirArray[dirIndex + 1]
              routeCoords == DecodeShapes(dir)
          IN  IF dir.stopPoints = None \/ dir.stopPoints = Some(<<>>)
                THEN [nextStop |-> None, routeCoords |-> <<>>]
              ELSE IF Len(routeCoords) < 2
                THEN [nextStop |-> None, routeCoords |-> <<>>]
              ELSE
                [nextStop |->
                   NextStopFrom(dir.stopPoints[1], routeCoords,
                                getDistanceAlongRoute(routeCoords,
                                                      vehicle[1].latitude,
                                                      vehicle[1].longitude),
                                None, None),
                 routeCoords |-> routeCoords]

\* ------------------------------------------------------------------------
\* Calls of the geometry functions
\* ------------------------------------------------------------------------
\* Points per route, stops per direction, steps of the grid of coordinates.
MaxRoute == 3
MaxStops == 2
GridMax == 2

\* The grid: steps of 50 units (50 m of latitude) from a corner.
Step == 5 * LatScale
Corner == 2 * Step
Grid == {Corner + k * Step : k \in 0..GridMax}
GridPoints == Grid \X Grid

\* Routes whose segments run along a meridian or a parallel, or are empty.
AxisAligned(p, q) == p[1] = q[1] \/ p[2] = q[2]

Routes ==
  {r \in SeqsUpTo(GridPoints, MaxRoute) :
     \A i \in 1..(Len(r) - 1) : AxisAligned(r[i], r[i + 1])}

DistanceCalls ==
  {[fn |-> "getDistanceAlongRoute", routeCoords |-> r, lat |-> p[1], lng |-> p[2]] :
     r \in Routes, p \in GridPoints}

\* Vehicles and stops lie on the two westernmost meridians of the grid, or,
\* for a stop, nowhere (no coordinates).
Near == Grid \X {Corner, Corner + Step}

StopNames == <<"A", "B", "C", "D">>

StopLists ==
  {[k \in DOMAIN ps |->
      [name |-> StopNames[k], label |-> "", lat |-> ps[k][1], lon |-> ps[k][2]]] :
     ps \in SeqsUpTo(Near \cup {<<0, 0>>}, MaxStops)}

\* The geometries of a direction: a line along a meridian, a line with a
\* bend, two disjoint segments with a stray entry between them, GeoJSON
\* coordinates, a polyline of one point, an empty string, nothing.
Meridian == <<<<Corner, Corner>>, <<Corner + Step, Corner>>, <<Corner + 2 * Step, Corner>>>>
Bend == <<<<Corner, Corner>>, <<Corner + 2 * Step, Corner>>, <<Corner + 2 * Step, Corner + Step>>>>
FirstSegment == <<<<Corner, Corner>>, <<Corner + Step, Corner>>>>
SecondSegment == <<<<Corner + 2 * Step, Corner + Step>>, <<Corner + Step, Corner + Step>>>>

Geometries ==
  { [shapes |-> String(encodePolyline(Meridian)), geometry |-> None],
    [shapes |-> String(encodePolyline(Bend)), geometry |-> None],
    [shapes |-> Array(<<String(encodePolyline(FirstSegment)),
                        [type |-> "object", value |-> <<>>],
                        String(encodePolyline(SecondSegment))>>),
     geometry |-> None],
    [shapes |-> Undefined,
     geometry |-> Some([k \in DOMAIN Bend |-> <<Bend[k][2], Bend[k][1]>>])],
    [shapes |-> String(encodePolyline(<<<<Corner, Corner>>>>)), geometry |-> None],
    [shapes |-> String(<<>>), geometry |-> None],
    [shapes |-> Undefined, geometry |-> None] }

Dirs ==
  {[stopPoints |-> sp, shapes |-> g.shapes, geometry |-> g.geometry] :
     g \in Geometries,
     sp \in {None} \cup {Some(stops) : stops \in StopLists}}

\* Route data with one direction, with two, and with none of its own.
RouteData(dir) ==
  { Some([directions |-> Some(<<dir>>), stopPoints |-> None,
          shapes |-> Undefined, geometry |-> None]),
    Some([directions |-> Some(<<dir, dir>>), stopPoints |-> None,
          shapes |-> Undefined, geometry |-> None]),
    Some([directions |-> None, stopPoints |-> dir.stopPoints,
          shapes |-> dir.shapes, geometry |-> dir.geometry]) }

\* A line of 2 km with stops at 0, 1 and 2 km and a vehicle at 0.95 km.
TwoKilometres ==
  [fn |-> "calculateNextStop",
   vehicle |-> Some([latitude |-> Corner + 950, longitude |-> Corner]),
   routeData |->
     Some([directions |->
             Some(<<[stopPoints |->
                       Some(<<[name |-> "A", label |-> "", lat |-> Corner, lon |-> Corner],
                              [name |-> "B", label |-> "", lat |-> Corner + 1000, lon |-> Corner],
                              [name |-> "C", label |-> "", lat |-> Corner + 2000, lon |-> Corner]>>),
                     shapes |-> String(encodePolyline(
                                  <<<<Corner, Corner>>, <<Corner + 1000, Corner>>,
                                    <<Corner + 2000, Corner>>>>)),
                     geometry |-> None]>>),
           stopPoints |-> None, shapes |-> Undefined, geometry |-> None]),
   direction |-> "outward"]

NextStopCalls ==
  {[fn |-> "calculateNextStop",
    vehicle |-> Some([latitude |-> p[1], longitude |-> p[2]]),
    routeData |-> rd, direction |-> d] :
     p \in Near, rd \in UNION {RouteData(dir) : dir \in Dirs},
     d \in {"outward", "return"}}
  \cup {TwoKilometres}
  \cup {[fn |-> "calculateNextStop", vehicle |-> Some([latitude |-> Corner, longitude |-> Corner]),
         routeData |-> None, direction |-> "outward"]}

GeoInit ==
  /\ EngineInit
  /\ StoreInit
  /\ NoRoute
  /\ call \in {Some(c) : c \in DistanceCalls \cup NextStopCalls}
  /\ returned = None

GetDistanceAlongRoute ==
  /\ returned = None
  /\ call[1].fn = "getDistanceAlongRoute"
  /\ returned' = Some(getDistanceAlongRoute(call[1].routeCoords, call[1].lat, call[1].lng))
  /\ UNCHANGED <<engineVars, storeVars, call, drawVars>>

CalculateNextStop ==
  /\ returned = None
  /\ call[1].fn = "calculateNextStop"
  /\ returned' = Some(calculateNextStop(call[1].vehicle, call[1].routeData,
                                      call[1].direction))
  /\ UNCHANGED <<engineVars, storeVars, call, drawVars>>

GeoNext == GetDistanceAlongRoute \/ CalculateNextStop

GeoSpec == GeoInit /\ [][GeoNext]_vars

\* ------------------------------------------------------------------------
\* Calls of the polyline decoders
\* ------------------------------------------------------------------------
\* The decoder of the route drawing (components/LineRoute.vue), which
\* pushes [lng, lat] where the one of the next-stop utilities pushes
\* [lat, lng].
decodePolylineLngLat(encoded) ==
  LET points == DecodeFrom(encoded, 1, 0, 0)
  IN  [k \in DOMAIN points |-> <<points[k][2], points[k][1]>>]

\* Pairs encoded in one polyline.
MaxPairs == 2

\* Deltas in units of 1e-5 degree: of one chunk and of several, of both
\* signs, and the latitude of Lyon as the first delta from 0.
Deltas == {-17, -1, 0, 16, 4576000}

RECURSIVE RunningSum(_, _, _)
RunningSum(deltas, lat, lng) ==
  IF deltas = <<>> THEN <<>>
  ELSE LET d == Head(deltas)
       IN  << <<lat + d[1], lng + d[2]>> >>
           \o RunningSum(Tail(deltas), lat + d[1], lng + d[2])

Decoders == {"nextStop", "LineRoute"}

DecodeCalls ==
  {[fn |-> "decodePolyline", decoder |-> c, deltas |-> ds,
    encoded |-> encodePolyline(RunningSum(ds, 0, 0))] :
     c \in Decoders, ds \in SeqsUpTo(Deltas \X Deltas, MaxPairs)}

PolylineInit ==
  /\ EngineInit
  /\ StoreInit
  /\ NoRoute
  /\ call \in {Some(c) : c \in DecodeCalls}
  /\ returned = None

DecodePolyline ==
  /\ returned = None
  /\ call[1].fn = "decodePolyline"
  /\ returned' = Some(IF call[1].decoder = "LineRoute"
                        THEN decodePolylineLngLat(call[1].encoded)
                        ELSE decodePolyline(call[1].encoded))
  /\ UNCHANGED <<engineVars, storeVars, call, drawVars>>

PolylineNext == DecodePolyline

PolylineSpec == PolylineInit /\ [][PolylineNext]_vars

\* ------------------------------------------------------------------------
\* Route drawer (src/components/LineRoute.vue), on the map of the engine
\* ------------------------------------------------------------------------
outwardColor == "DC2626"
returnColor == "F87171"

Drawer ==
  [routeData |-> propsRouteData, direction |-> propsDirection,
   markers |-> markers, layerIds |-> layerIds]

\* Layers, source and markers leave the map.
clearRoute(s) == [s EXCEPT !.layerIds = <<>>, !.markers = <<>>]

\* `directions = data.directions || data || []`, made an array.
RouteDirArray(data) ==
  IF data.directions # None THEN data.directions[1]
  ELSE << [stopPoints |-> data.stopPoints, shapes |-> data.shapes,
           geometry |-> data.geometry] >>

\* The direction prop lets the direction at index di (from 0) through.
Shown(dirProp, di) ==
  /\ ~(dirProp = "outward" /\ di = 1)
  /\ ~(dirProp = "return" /\ di # 1)

\* Shown as the filter that counts the drawn directions reads it.
Counted(dirProp, di) ==
  /\ ~(dirProp = "outward" /\ di = 1)
  /\ ~(dirProp = "return" /\ di = 0)

\* Decode shapes.
RouteSegments(dir) ==
  LET decoded ==
        IF dir.shapes.type = "string" /\ dir.shapes.value # <<>>
          THEN << decodePolylineLngLat(dir.shapes.value) >>
        ELSE IF dir.shapes.type = "array" /\ dir.shapes.value # <<>>
          THEN LET strings == SelectSeq(dir.shapes.value,
                                        LAMBDA e : e.type = "string")
               IN  [k \in DOMAIN strings |->
                      decodePolylineLngLat(strings[k].value)]
        ELSE <<>>
  IN  IF decoded = <<>> /\ dir.geometry # None THEN << dir.geometry[1] >>
      ELSE decoded

\* Create line features: one per segment of two points or more.
LineFeatures(segments, color, di) ==
  LET long == SelectSeq(segments, LAMBDA coords : Len(coords) >= 2)
  IN  [k \in DOMAIN long |-> [color |-> color, dirIndex |-> di,
                              coordinates |-> long[k]]]

\* `if (lat && lng)`
HasPosition(stop) == stop.lat # 0 /\ stop.lon # 0

\* Add terminus pill at last stop.
TerminusMarkers(dir, color, single) ==
  IF dir.stopPoints # None /\ Len(dir.stopPoints[1]) > 0
  THEN LET stop == dir.stopPoints[1][Len(dir.stopPoints[1])]
       IN  IF HasPosition(stop)
           THEN << [kind |-> "terminus", lat |-> stop.lat, lng |-> stop.lon,
                    color |-> color, name |-> stop.name, single |-> single] >>
           ELSE <<>>
  ELSE <<>>

\* Add stop markers.
StopMarkers(dir, color) ==
  IF dir.stopPoints # None
  THEN LET placed == SelectSeq(dir.stopPoints[1], HasPosition)
       IN  [k \in DOMAIN placed |->
              [kind |-> "stop", lat |-> placed[k].lat, lng |-> placed[k].lon,
               color |-> color, name |-> placed[k].name, single |-> FALSE]]
  ELSE <<>>

\* The loop over dirArray from index di (from 0): what it adds to the map and
\* the features it collects.
RECURSIVE DrawDirections(_, _, _, _, _)
DrawDirections(dirArray, di, dirProp, drawnCount, acc) ==
  IF di >= Len(dirArray) THEN acc
  ELSE IF ~Shown(dirProp, di)
    THEN DrawDirections(dirArray, di + 1, dirProp, drawnCount, acc)
  ELSE LET dir == dirArray[di + 1]
           color == IF di = 1 THEN returnColor ELSE outwardColor
       IN  DrawDirections(dirArray, di + 1, dirProp, drawnCount,
             [markers |-> acc.markers
                            \o TerminusMarkers(dir, color, drawnCount = 1)
                            \o StopMarkers(dir, color),
              features |-> acc.features
                             \o LineFeatures(RouteSegments(dir), color, di)])

drawRoute(s) ==
  LET c == clearRoute(s)
  IN  IF c.routeData = None THEN c
      ELSE
        LET dirArray == RouteDirArray(c.routeData[1])
            drawnCount == Cardinality({di \in 0..(Len(dirArray) - 1) :
                                         Counted(c.direction, di)})
            drawn == DrawDirections(dirArray, 0, c.direction, drawnCount,
                                    [markers |-> <<>>, features |-> <<>>])
        IN  [c EXCEPT
               !.markers = drawn.markers,
               !.layerIds = IF drawn.features = <<>> THEN <<>>
                            ELSE <<"casing", "line">>]

\* Route data the store hands to a drawer.
DrawnGeometries ==
  { [shapes |-> String(encodePolyline(FirstSegment)), geometry |-> None],
    [shapes |-> String(encodePolyline(<<<<Corner, Corner>>>>)), geometry |-> None],
    [shapes |-> Undefined, geometry |-> None] }

DrawnStops ==
  {None} \cup
  {Some([k \in DOMAIN ps |->
           [name |-> StopNames[k], label |-> "", lat |-> ps[k][1], lon |-> ps[k][2]]]) :
     ps \in {<< <<Corner, Corner>> >>,
             << <<Corner, Corner>>, <<0, 0>> >>}}

DrawnDirs ==
  {[stopPoints |-> sp, shapes |-> g.shapes, geometry |-> g.geometry] :
     g \in DrawnGeometries, sp \in DrawnStops}

DrawnRouteData ==
  {None} \cup
  {Some([directions |-> Some(<<d>>), stopPoints |-> None,
         shapes |-> Undefined, geometry |-> None]) : d \in DrawnDirs} \cup
  {Some([directions |-> Some(<<d, e>>), stopPoints |-> None,
         shapes |-> Undefined, geometry |-> None]) :
     d \in DrawnDirs, e \in DrawnDirs}

DirectionProps == {"both", "outward", "return"}

Draws(s) ==
  /\ propsRouteData' = s.routeData
  /\ propsDirection' = s.direction
  /\ markers' = s.markers
  /\ layerIds' = s.layerIds
  /\ UNCHANGED <<storeVars, callVars>>
  /\ UNCHANGED <<registry, widget, mapBusy, pendingVehicles, animFrameId,
                 elapsed, rafQueue, moving, moved, mounted>>
  /\ calls' = EmptyBag
  /\ applied' = <<>>
  /\ arg' = None

\* watch(() => props.routeData, drawRoute)
RouteDataChanged(d) ==
  /\ d # propsRouteData
  /\ Draws(drawRoute([Drawer EXCEPT !.routeData = d]))
  /\ op' = "routeData"

\* watch(() => props.direction, drawRoute)
DirectionChanged(x) ==
  /\ x # propsDirection
  /\ Draws(drawRoute([Drawer EXCEPT !.direction = x]))
  /\ op' = "direction"

RouteNext ==
  \/ \E d \in DrawnRouteData : RouteDataChanged(d)
  \/ \E x \in DirectionProps : DirectionChanged(x)
  \/ MoveStart
  \/ MoveEnd

\* The drawer and the gate of the marker layer on one map.
RouteSpec == Init /\ [][RouteNext]_vars

\* ------------------------------------------------------------------------
\* Properties
\* ------------------------------------------------------------------------
Handlers == {"sync", "movestart", "moveend", "frame"}

\* A snapshot was reconciled by the last handler.
Reconciled == applied # <<>>

\* C1: whenever a handler leaves the gate Busy it has issued no widget call,
\* left every marker of the map as it was and reconciled nothing: the engine
\* mutates markers only in steps that end with the gate Idle.
C1_NoMutationWhileBusy ==
  [][mapBusy' => (calls' = EmptyBag /\ widget' = widget /\ applied' = <<>>)]_vars

\* A sync call and a non-empty snapshot arrived while the gate was Busy and
\* markers were on the map.
C1_Witness ==
  /\ mapBusy
  /\ op = "sync"
  /\ registry # NoMarkers
  /\ pendingVehicles # None
  /\ pendingVehicles[1] # <<>>

\* C2 (as claimed): while any started viewport transition has not ended the
\* gate is Busy, nothing is replayed and no marker is mutated.
C2_BusyUntilAllEnded ==
  moving > 0 => (mapBusy /\ calls = EmptyBag /\ applied = <<>>)

\* C3: a sync call while Busy issues no widget call, no step that ends with
\* the gate Busy changes the registry or a marker, and the transition to Idle
\* with a buffered snapshot issues the calls, and yields the registry and
\* the markers, of a sync call with that snapshot made with the gate Idle.
C3_GateBuffering ==
  [][/\ (op' = "sync" /\ mapBusy) => calls' = EmptyBag
     /\ mapBusy' => (registry' = registry /\ widget' = widget)
     /\ (op' = "moveend" /\ pendingVehicles # None) =>
          LET direct == sync([Engine EXCEPT !.mapBusy = FALSE,
                                            !.pendingVehicles = None],
                             pendingVehicles[1])
          IN  /\ calls' = direct.calls
              /\ registry' = direct.registry
              /\ widget' = direct.widget
              /\ applied' = direct.applied]_vars

\* A buffered snapshot was replayed and changed the markers.
C3_Witness ==
  /\ op = "moveend"
  /\ Reconciled
  /\ \E i \in VehicleIds : CountCalls(calls, "place", i) = 1
  /\ \E i \in VehicleIds : CountCalls(calls, "remove", i) = 1

\* C4: a sync call while Busy changes nothing but the buffer, which then
\* holds this call's snapshot whatever it held before.
C4_BusySyncOnlyBuffers ==
  [][(op' = "sync" /\ mapBusy) =>
        /\ pendingVehicles' = arg'
        /\ UNCHANGED <<registry, widget, mapBusy, animFrameId, rafQueue,
                       elapsed>>
        /\ calls' = EmptyBag
        /\ applied' = <<>>]_vars

\* A snapshot was buffered while a marker was short of its destination.
C4_Witness ==
  /\ mapBusy
  /\ op = "sync"
  /\ pendingVehicles = arg
  /\ \E i \in DOMAIN registry : ~Settled(registry[i])

\* C5: a transition-end with a snapshot buffered reconciles exactly that
\* snapshot, once, and empties the buffer; with none buffered it reconciles
\* nothing.  The buffer always holds the snapshot of the latest sync call
\* made while Busy, and no other handler fills it.
C5_ReplayOnceLatest ==
  [][/\ (op' = "moveend" /\ pendingVehicles # None) =>
          (applied' = <<pendingVehicles[1]>> /\ pendingVehicles' = None)
     /\ (op' = "moveend" /\ pendingVehicles = None) =>
          (applied' = <<>> /\ pendingVehicles' = None)
     /\ (op' = "sync" /\ mapBusy) => pendingVehicles' = arg'
     /\ (op' = "sync" /\ ~mapBusy) => pendingVehicles' = pendingVehicles
     /\ op' \in {"movestart", "frame", "elapse"} =>
          pendingVehicles' = pendingVehicles]_vars

\* A replay has taken place and left the buffer empty.
C5_Witness ==
  /\ op = "moveend"
  /\ Reconciled
  /\ applied[1] # <<>>
  /\ pendingVehicles = None

\* C6 (as claimed): after a snapshot is reconciled, the source of every entry
\* is the coordinate at which the map shows its marker.
C6_SourceIsDisplayed ==
  Reconciled =>
    \A i \in DOMAIN registry \cap DOMAIN widget :
      /\ registry[i].srcLat = widget[i].lat
      /\ registry[i].srcLng = widget[i].lng

\* C7: after a snapshot is reconciled the registry holds exactly the
\* snapshot's identifiers, and at all times the markers on the map are those
\* of the registry entries.
C7_RegistryMatchesSnapshot ==
  /\ Reconciled => DOMAIN registry = IncomingIds(applied[Len(applied)])
  /\ DOMAIN widget = DOMAIN registry

\* A reconciliation removed one vehicle and kept another.
C7_Witness ==
  /\ Reconciled
  /\ registry # NoMarkers
  /\ \E i \in VehicleIds : CountCalls(calls, "remove", i) = 1

\* C8: reconciling snapshot B places one marker per identifier of B that had
\* no entry, removes one per entry whose identifier is not in B, and neither
\* places nor removes for an identifier in both; between reconciliations the
\* identifiers of the registry stay those of the previous snapshot.
C8_PlaceAndRemoveCounts ==
  [][/\ Reconciled' =>
          LET A == DOMAIN registry
              B == IncomingIds(applied'[1])
          IN  \A i \in VehicleIds :
                /\ CountCalls(calls', "place", i) = (IF i \in B \ A THEN 1 ELSE 0)
                /\ CountCalls(calls', "remove", i) = (IF i \in A \ B THEN 1 ELSE 0)
     /\ ~Reconciled' => DOMAIN registry' = DOMAIN registry]_vars

\* veh1 was already on the map and is retargeted, veh2 is new.
C8_Witness ==
  /\ Reconciled
  /\ DOMAIN registry = {"veh1", "veh2"}
  /\ CountCalls(calls, "place", "veh2") = 1
  /\ CountCalls(calls, "place", "veh1") = 0
  /\ CountCalls(calls, "popup", "veh1") = 1
  /\ ~Settled(registry["veh1"])

\* C9 (as claimed): a vehicle whose coordinate changed gets one move call,
\* so no frame moves a marker that a frame has moved since the snapshot was
\* reconciled.
C9_ExactlyOneMove ==
  [][\A i \in VehicleIds : CountCalls(calls', "move", i) > 0 => i \notin moved]_vars

\* C9 (amended): reconciling a snapshot issues no move call; every frame
\* that runs with the gate Idle issues one move call for each entry that is
\* not settled and none for a settled one.
C9_OneMovePerFrame ==
  [][/\ Reconciled' => \A i \in VehicleIds : CountCalls(calls', "move", i) = 0
     /\ (op' = "frame" /\ ~mapBusy) =>
          \A i \in VehicleIds :
            CountCalls(calls', "move", i) =
              (IF i \in DOMAIN registry /\ ~Settled(registry[i]) THEN 1 ELSE 0)
     /\ op' \in {"movestart", "elapse"} => calls' = EmptyBag]_vars

\* A frame has moved veh1 part of the way and the next frame is scheduled.
C9_Witness ==
  /\ op = "frame"
  /\ CountCalls(calls, "move", "veh1") = 1
  /\ CountCalls(calls, "move", "veh2") = 0
  /\ "veh2" \in DOMAIN registry
  /\ ~Settled(registry["veh1"])
  /\ animFrameId # 0

\* C10 (as claimed): the frame at which t reaches 1 hands the map the
\* destination of every entry that was not settled, stores it as the
\* entry's current coordinate and so settles the entry.
C10_SnapAtEnd ==
  [][(op' = "frame" /\ ~mapBusy /\ TickT(Engine) = One) =>
        \A i \in DOMAIN registry :
          ~Settled(registry[i]) =>
            /\ widget'[i].lat = registry[i].dstLat
            /\ widget'[i].lng = registry[i].dstLng
            /\ registry'[i].lat = registry[i].dstLat
            /\ registry'[i].lng = registry[i].dstLng
            /\ Settled(registry'[i])]_vars

MidWay(i) ==
  /\ i \in DOMAIN registry \cap DOMAIN widget
  /\ widget[i].lat # registry[i].lat \/ widget[i].lng # registry[i].lng

\* C22: whenever a handler leaves the gate Busy no frame is scheduled and
\* the browser holds no frame callback: the transition-start cancels the
\* pending frame, a sync call while Busy schedules none, and no frame runs
\* while the gate is Busy.
C22_NoFrameWhileBusy ==
  [][/\ mapBusy' => (rafQueue' = {} /\ animFrameId' = 0)
     /\ op' = "movestart" => (rafQueue' = {} /\ animFrameId' = 0)
     /\ mapBusy => op' # "frame"]_vars

\* A transition started while a marker was on its way.
C22_Witness ==
  /\ mapBusy
  /\ op = "movestart"
  /\ moving = 1
  /\ elapsed < ANIM_MS
  /\ \E i \in VehicleIds : MidWay(i) /\ ~Settled(registry[i])
  /\ rafQueue = {}

\* C23: the browser never holds more than one frame callback of the
\* engine, and the one it holds is the one animFrameId names.
C23_AtMostOneFrame ==
  /\ Cardinality(rafQueue) <= 1
  /\ rafQueue = (IF animFrameId = 0 THEN {} ELSE {animFrameId})

\* A snapshot was reconciled while two markers were in the registry, one of
\* them on its way, and one frame is scheduled.
C23_Witness ==
  /\ op = "sync"
  /\ Reconciled
  /\ Cardinality(DOMAIN registry) = 2
  /\ \E i \in VehicleIds : MidWay(i)
  /\ Cardinality(rafQueue) = 1

\* The clock runs with the gate Idle: a snapshot was reconciled with the
\* gate Idle and no transition has started since.
Running == ~mapBusy /\ animFrameId # 0

\* Every entry is settled and its marker is shown at its destination, and
\* the clock is stopped.
Arrived ==
  /\ animFrameId = 0
  /\ \A i \in DOMAIN registry :
       /\ Settled(registry[i])
       /\ widget[i].lat = registry[i].dstLat
       /\ widget[i].lng = registry[i].dstLng

\* C24 (as claimed): while the clock runs after a reconciliation, if frames
\* keep being delivered then either a sync call or a transition-start
\* occurs, or eventually every entry is settled with its marker shown at
\* its destination and the clock is stopped.
C24_EventuallyArrived ==
  (Running /\ op \in {"frame", "elapse"})
    ~> (Arrived \/ op \in {"sync", "movestart"})

\* C25: while the gate is Busy the markers stay as the last frame left
\* them and no widget call is issued; a transition-end with nothing
\* buffered leaves the clock, the markers and the registry as they were;
\* and once the clock is stopped it stays stopped, with markers and
\* registry unchanged, until a snapshot is reconciled, so an interrupted
\* marker stays short of its destination until then.
C25_InterruptedUntilNextSync ==
  [][/\ mapBusy' => (widget' = widget /\ calls' = EmptyBag)
     /\ (op' = "moveend" /\ pendingVehicles = None) =>
          /\ UNCHANGED <<animFrameId, rafQueue, elapsed, widget, registry>>
          /\ calls' = EmptyBag
     /\ (animFrameId = 0 /\ ~Reconciled') =>
          /\ animFrameId' = 0
          /\ UNCHANGED <<widget, registry>>
          /\ calls' = EmptyBag]_vars

\* The only transition has ended with nothing buffered and a marker is
\* still part of the way to its destination, the clock stopped.
C25_Witness ==
  /\ op = "moveend"
  /\ ~mapBusy
  /\ moving = 0
  /\ pendingVehicles = None
  /\ ~Reconciled
  /\ animFrameId = 0
  /\ elapsed < ANIM_MS
  /\ \E i \in VehicleIds : MidWay(i) /\ ~Settled(registry[i])

\* C26 (as claimed): a frame is scheduled only while some registry entry is
\* not settled.
C26_FrameOnlyWhileUnsettled ==
  animFrameId # 0 => \E i \in DOMAIN registry : ~Settled(registry[i])

\* ------------------------------------------------------------------------
\* Properties of the reconciliation
\* ------------------------------------------------------------------------
\* The last fix of vehicle i in a snapshot that lists it.
LastFix(vehicles, i) ==
  LET last == CHOOSE k \in DOMAIN vehicles :
                /\ vehicles[k].id = i
                /\ \A j \in DOMAIN vehicles : vehicles[j].id = i => j <= k
  IN  vehicles[last]

\* C27: after a snapshot is reconciled the destination of every entry is
\* the coordinate of the vehicle's last fix in that snapshot, and a step
\* that reconciles nothing (a frame, a transition-start, a transition-end
\* with nothing buffered, a sync call while Busy) changes no destination.
C27_DestinationIsLatestFix ==
  [][/\ Reconciled' =>
          \A i \in DOMAIN registry' :
            LET v == LastFix(applied'[Len(applied')], i)
            IN  /\ registry'[i].dstLat = v.latitude
                /\ registry'[i].dstLng = v.longitude
     /\ ~Reconciled' =>
          /\ DOMAIN registry' = DOMAIN registry
          /\ \A i \in DOMAIN registry :
               /\ registry'[i].dstLat = registry[i].dstLat
               /\ registry'[i].dstLng = registry[i].dstLng]_vars

\* A snapshot that lists veh1 twice, at two coordinates, was reconciled
\* while veh1 was on its way elsewhere: its destination is the second.
C27_Witness ==
  /\ Reconciled
  /\ Len(applied[1]) = 2
  /\ applied[1][1].id = "veh1"
  /\ applied[1][2].id = "veh1"
  /\ applied[1][1].latitude # applied[1][2].latitude
  /\ registry["veh1"].dstLat = applied[1][2].latitude
  /\ MidWay("veh1")

\* The fixes of vehicle i in a snapshot.
FixesOf(vehicles, i) == {k \in DOMAIN vehicles : vehicles[k].id = i}

\* C28: reconciling a snapshot places exactly one marker for an identifier
\* that had no entry; when the snapshot lists the identifier once, the new
\* entry has source, destination and current coordinate equal to the fix
\* coordinate, which is where the marker is shown, so the entry is settled.
\* A settled entry stays settled and as it is, and gets no move call, in
\* every step that reconciles nothing.
C28_NewEntryIsSettled ==
  [][/\ Reconciled' =>
          \A i \in DOMAIN registry' \ DOMAIN registry :
            /\ CountCalls(calls', "place", i) = 1
            /\ Cardinality(FixesOf(applied'[1], i)) = 1 =>
                 LET v == LastFix(applied'[1], i)
                     e == registry'[i]
                 IN  /\ e.srcLat = v.latitude /\ e.srcLng = v.longitude
                     /\ e.dstLat = v.latitude /\ e.dstLng = v.longitude
                     /\ e.lat = v.latitude /\ e.lng = v.longitude
                     /\ widget'[i].lat = v.latitude
                     /\ widget'[i].lng = v.longitude
                     /\ Settled(e)
     /\ ~Reconciled' =>
          \A i \in DOMAIN registry :
            Settled(registry[i]) =>
              /\ registry'[i] = registry[i]
              /\ widget'[i] = widget[i]
              /\ CountCalls(calls', "move", i) = 0]_vars

\* veh2 has just been placed, settled, next to veh1, which is on its way.
C28_Witness ==
  /\ Reconciled
  /\ CountCalls(calls, "place", "veh2") = 1
  /\ Cardinality(FixesOf(applied[1], "veh2")) = 1
  /\ Settled(registry["veh2"])
  /\ widget["veh2"].lat = registry["veh2"].dstLat
  /\ "veh1" \in DOMAIN registry
  /\ MidWay("veh1")

SettledOn(vehicles) ==
  /\ DOMAIN registry = IncomingIds(vehicles)
  /\ DOMAIN widget = DOMAIN registry
  /\ \A i \in DOMAIN registry :
       LET v == LastFix(vehicles, i)
           e == registry[i]
       IN  /\ Settled(e)
           /\ e.dstLat = v.latitude /\ e.dstLng = v.longitude
           /\ e.bearing = v.bearing /\ e.color = v.lineColor
           /\ e.lineName = v.lineName

\* C33: a snapshot that is reconciled, gate Idle, when the registry is
\* already settled on it, changes nothing: the registry keeps its
\* identifiers and the map its markers, as they are shown; no marker is
\* placed, removed or moved, and none that the snapshot lists once gets a
\* visual update; afterwards the source, the destination and the current
\* coordinate of every entry are the coordinate of its fix.
C33_SecondSyncChangesNothing ==
  [][(op' = "sync" /\ ~mapBusy /\ SettledOn(arg'[1])) =>
       /\ Reconciled'
       /\ DOMAIN registry' = DOMAIN registry
       /\ widget' = widget
       /\ \A i \in VehicleIds :
            /\ CountCalls(calls', "place", i) = 0
            /\ CountCalls(calls', "remove", i) = 0
            /\ CountCalls(calls', "move", i) = 0
            /\ Cardinality(FixesOf(arg'[1], i)) = 1 =>
                 CountCalls(calls', "update", i) = 0
       /\ \A i \in DOMAIN registry' :
            LET v == LastFix(arg'[1], i)
                e == registry'[i]
            IN  /\ e.srcLat = v.latitude /\ e.srcLng = v.longitude
                /\ e.dstLat = v.latitude /\ e.dstLng = v.longitude
                /\ e.lat = v.latitude /\ e.lng = v.longitude]_vars

\* The snapshot with veh1 at (10.0, 8.0) and veh2 has been reconciled again
\* after veh1 had travelled there from (1.0, 1.0) and arrived: the source of
\* veh1 is now where it stands, and the handler only rewrote the popups.
C33_Witness ==
  /\ op = "sync"
  /\ Reconciled
  /\ SettledOn(arg[1])
  /\ DOMAIN registry = {"veh1", "veh2"}
  /\ registry["veh1"].srcLat = 40
  /\ registry["veh1"].dstLat = 40
  /\ widget["veh1"].lat # 4
  /\ calls = Call("popup", "veh1") (+) Call("popup", "veh2")

\* ------------------------------------------------------------------------
\* Properties of the geometry functions
\* ------------------------------------------------------------------------
Called(fn) == call[1].fn = fn /\ returned # None

\* The direction a calculateNextStop call asks for, when the route data
\* has it.
DirIndex == IF call[1].direction = "return" THEN 2 ELSE 1
HasDir == call[1].routeData # None /\ DirIndex <= Len(DirArray(call[1].routeData[1]))
TheDir == DirArray(call[1].routeData[1])[DirIndex]

\* Its stops, and those that have coordinates.
TheStops == IF TheDir.stopPoints = None THEN <<>> ELSE TheDir.stopPoints[1]
Located == {k \in DOMAIN TheStops : TheStops[k].lat # 0 /\ TheStops[k].lon # 0}

\* delta = stopDist - vehicleDist along the coordinates the call used.
Delta(k) ==
  getDistanceAlongRoute(returned[1].routeCoords, TheStops[k].lat, TheStops[k].lon)
  - getDistanceAlongRoute(returned[1].routeCoords,
                          call[1].vehicle[1].latitude, call[1].vehicle[1].longitude)

Eligible == {k \in Located : Delta(k) > -BUFFER}
Nearest == {k \in Eligible : \A j \in Eligible : Delta(k) <= Delta(j)}
FirstOf(S) == CHOOSE k \in S : \A j \in S : k <= j

\* C16: when calculateNextStop gets as far as its stops, it returns the stop
\* with the smallest delta = stopDist - vehicleDist among the stops with
\* delta > -0.1 km, the first in stop order when several have that delta,
\* and none when no stop has delta > -0.1 km; with stops at 0, 1 and 2 km
\* and the vehicle at 0.95 km it returns the stop at 1 km.
C16_NearestStopAhead ==
  (Called("calculateNextStop") /\ returned[1].routeCoords # <<>>) =>
    /\ Eligible = {} => returned[1].nextStop = None
    /\ Eligible # {} =>
         returned[1].nextStop = Some(StopName(TheStops[FirstOf(Nearest)]))
    /\ call[1] = TwoKilometres => returned[1].nextStop = Some("B")

\* Two stops at the same place, behind the vehicle but within the buffer:
\* the first is returned.
C16_Witness ==
  /\ Called("calculateNextStop")
  /\ returned[1].routeCoords # <<>>
  /\ Len(TheStops) = 2
  /\ Eligible = {1, 2}
  /\ Delta(1) = Delta(2)
  /\ Delta(1) < 0
  /\ returned[1].nextStop = Some("A")

\* C17: calculateNextStop returns none when the route data lacks the
\* direction asked for, when the direction has no stops, when it has no
\* geometry, and when its geometry decodes to fewer than two points.
C17_NoneWithoutRoute ==
  Called("calculateNextStop") =>
    /\ ~HasDir => returned[1].nextStop = None
    /\ HasDir =>
         /\ TheStops = <<>> => returned[1].nextStop = None
         /\ (TheDir.shapes = Undefined /\ TheDir.geometry = None)
              => returned[1].nextStop = None
         /\ Len(DecodeShapes(TheDir)) < 2 => returned[1].nextStop = None

\* The direction has a located stop and a polyline of one point.
C17_Witness ==
  /\ Called("calculateNextStop")
  /\ HasDir
  /\ Located # {}
  /\ Len(DecodeShapes(TheDir)) = 1
  /\ returned[1].nextStop = None

\* The segments of a direction whose shapes are an array of polylines.
Segments(dir) ==
  LET strings == SelectSeq(dir.shapes.value, LAMBDA e : e.type = "string")
  IN  [k \in DOMAIN strings |-> decodePolyline(strings[k].value)]

\* C18: when the geometry of a direction is several segments, no two
\* consecutive coordinates handed to getDistanceAlongRoute are the last
\* point of one segment and the first point of the next.
C18_SegmentsNotJoined ==
  (Called("calculateNextStop") /\ HasDir /\ TheDir.shapes.type = "array") =>
    LET segs == Segments(TheDir)
        used == returned[1].routeCoords
    IN  \A k \in 1..(Len(segs) - 1) : \A i \in 1..(Len(used) - 1) :
          ~(/\ used[i] = segs[k][Len(segs[k])]
            /\ used[i + 1] = segs[k + 1][1])

\* The route and the point of a getDistanceAlongRoute call.
TheRoute == call[1].routeCoords
ThePoint == <<call[1].lat, call[1].lng>>

\* The segments of the route whose clamped projection of the point is
\* closest to it.
Closest ==
  {i \in 1..(Len(TheRoute) - 1) :
     \A j \in 1..(Len(TheRoute) - 1) :
       DistToSegment(TheRoute, i, ThePoint[1], ThePoint[2])
         <= DistToSegment(TheRoute, j, ThePoint[1], ThePoint[2])}

SegmentLength(r, i) == haversineDistance(r[i][1], r[i][2], r[i + 1][1], r[i + 1][2])

RECURSIVE SumLengths(_, _)
SumLengths(r, S) ==
  IF S = {} THEN 0
  ELSE LET i == CHOOSE x \in S : TRUE
       IN  SegmentLength(r, i) + SumLengths(r, S \ {i})

\* C19: getDistanceAlongRoute returns 0 for a route of fewer than two
\* coordinates; otherwise it returns the summed length of the segments
\* before the chosen one plus the distance from the chosen segment's start
\* to the clamped projection of the point on it, the chosen segment being
\* the lowest-index one among the closest; the result lies between 0 and
\* the length of the route.
C19_LengthBeforePlusPartial ==
  Called("getDistanceAlongRoute") =>
    IF Len(TheRoute) < 2 THEN returned[1] = 0
    ELSE LET chosen == FirstOf(Closest)
             proj == projectPointOnSegment(
                       ThePoint[1], ThePoint[2],
                       TheRoute[chosen][1], TheRoute[chosen][2],
                       TheRoute[chosen + 1][1], TheRoute[chosen + 1][2])
         IN  /\ returned[1] =
                  SumLengths(TheRoute, 1..(chosen - 1))
                  + haversineDistance(TheRoute[chosen][1], TheRoute[chosen][2],
                                      proj.lat, proj.lng)
             /\ returned[1] >= 0
             /\ returned[1] <= SumLengths(TheRoute, 1..(Len(TheRoute) - 1))

\* A route that goes out and comes back, and the point at its start: both
\* segments are at distance 0 and the first one is chosen.
C19_Witness ==
  /\ Called("getDistanceAlongRoute")
  /\ Len(TheRoute) = 3
  /\ TheRoute[1] # TheRoute[2]
  /\ TheRoute[3] = TheRoute[1]
  /\ ThePoint = TheRoute[1]
  /\ Closest = {1, 2}
  /\ returned[1] = 0

\* A straight route of several segments: along one axis, always forward.
Along(r, ax) ==
  /\ Len(r) >= 3
  /\ \A i \in 1..(Len(r) - 1) :
       /\ r[i][3 - ax] = r[i + 1][3 - ax]
       /\ (r[i + 1][ax] - r[i][ax]) * (r[Len(r)][ax] - r[1][ax]) > 0

Straight(r) == \E ax \in {1, 2} : Along(r, ax)

\* The points sampled on a straight route, every half step of the grid,
\* and how far each is from the start of the route.
HalfGrid == {Corner + k * (Step \div 2) : k \in 0..(2 * GridMax)}

Progress(r, q) == Abs(q[1] - r[1][1]) + Abs(q[2] - r[1][2])

Samples(r) ==
  {q \in HalfGrid \X HalfGrid :
     \E ax \in {1, 2} :
       /\ Along(r, ax)
       /\ q[3 - ax] = r[1][3 - ax]
       /\ (q[ax] - r[1][ax]) * (r[Len(r)][ax] - q[ax]) >= 0}

\* C20: on a straight route of several segments, getDistanceAlongRoute of
\* a point on the route is at most its value at every sampled point further
\* along the route and at least its value at every sampled point before
\* it, the vertices shared by two segments included.
C20_MonotoneAlongStraightRoute ==
  (Called("getDistanceAlongRoute") /\ Straight(TheRoute)
     /\ ThePoint \in Samples(TheRoute)) =>
    \A q \in Samples(TheRoute) :
      /\ Progress(TheRoute, q) > Progress(TheRoute, ThePoint)
           => getDistanceAlongRoute(TheRoute, q[1], q[2]) >= returned[1]
      /\ Progress(TheRoute, q) < Progress(TheRoute, ThePoint)
           => getDistanceAlongRoute(TheRoute, q[1], q[2]) <= returned[1]

\* The point is the vertex shared by the two segments of a straight route.
C20_Witness ==
  /\ Called("getDistanceAlongRoute")
  /\ Straight(TheRoute)
  /\ ThePoint = TheRoute[2]
  /\ returned[1] = SegmentLength(TheRoute, 1)
  /\ returned[1] > 0
  /\ \E q \in Samples(TheRoute) :
       /\ q \notin {TheRoute[i] : i \in DOMAIN TheRoute}
       /\ Progress(TheRoute, q) > Progress(TheRoute, ThePoint)

\* The sum of the first k deltas of coordinate c (1: latitude, 2: longitude).
RECURSIVE SumOfDeltas(_, _, _)
SumOfDeltas(deltas, k, c) ==
  IF k = 0 THEN 0 ELSE SumOfDeltas(deltas, k - 1, c) + deltas[k][c]

\* C21: decodePolyline yields one coordinate per encoded pair of deltas, in
\* the order of the input; the k-th coordinate is the sum, from (0, 0), of
\* the first k zig-zag-decoded latitude deltas and longitude deltas (in
\* units of 1e-5 degree), and the output is a function of the input alone.
C21_RunningSumOfDeltas ==
  Called("decodePolyline") =>
    LET deltas == call[1].deltas
        points == returned[1]
        latAt == IF call[1].decoder = "LineRoute" THEN 2 ELSE 1
    IN  /\ Len(points) = Len(deltas)
        /\ \A k \in DOMAIN points :
             /\ points[k][latAt] = SumOfDeltas(deltas, k, 1)
             /\ points[k][3 - latAt] = SumOfDeltas(deltas, k, 2)
        /\ \A c \in DecodeCalls :
             (c.encoded = call[1].encoded /\ c.decoder = call[1].decoder)
               => c.deltas = deltas

\* Two pairs, the second with a negative delta of several chunks, decoded
\* by the decoder of the route drawing.
C21_Witness ==
  /\ Called("decodePolyline")
  /\ call[1].decoder = "LineRoute"
  /\ call[1].deltas = << <<4576000, 16>>, <<-17, -1>> >>
  /\ returned[1] = << <<16, 4576000>>, <<15, 4575983>> >>

\* ------------------------------------------------------------------------
\* Properties of the store
\* ------------------------------------------------------------------------
\* The lines of the vehicles in a list.
LinesOf(vs) == {vs[k].lineId : k \in DOMAIN vs}

\* Nothing is awaited and the page's watcher has run.
Quiescent == inflight = EmptyBag /\ ~WatcherPending

\* C11: once every awaited fetch of vehicle positions has settled, every
\* vehicle in store.vehicles, and every vehicle handed to the marker layer,
\* belongs to a line that is selected: the response of a fetch whose line
\* has been deselected in the meantime is not written.
C11_NoVehicleOfDeselectedLine ==
  Quiescent =>
    /\ LinesOf(storeVehicles) \subseteq selectedLineIds
    /\ LinesOf(enrichedVehicles(Store)) \subseteq selectedLineIds

\* C12: when every request of an awaited fetch of vehicle positions fails,
\* the step that ends the fetch leaves store.vehicles as it was, and with it
\* what the marker layer is handed, records an error and leaves the poll
\* timer as it was.
C12_FailureKeepsVehicles ==
  [][\A lineIds \in BagToSet(inflight) :
       \A replies \in SettledByDirection(lineIds) :
         (/\ VehiclesSettle(lineIds, replies)
          /\ \A j \in DOMAIN replies : ~replies[j].ok)
         => /\ storeVehicles' = storeVehicles
            /\ error' # None
            /\ pollTimer' = pollTimer]_vars

\* C14: whatever toggleLine, selectAll and clearSelection calls are made, at
\* most MAX_SELECTED lines are selected, and a toggleLine call for a line
\* that is not selected, made when MAX_SELECTED lines are, leaves the
\* selection as it was.
C14_AtMostMaxSelected ==
  [][/\ Cardinality(selectedLineIds') <= MAX_SELECTED
     /\ \A lineId \in LineIds \ selectedLineIds :
          (/\ ToggleLine(lineId) \/ HandleToggle(lineId)
           /\ Cardinality(selectedLineIds) >= MAX_SELECTED)
          => selectedLineIds' = selectedLineIds]_vars

\* The maximum is reached, by toggles that include the tramway line, so a
\* bus line is left to be toggled in.
C14_Witness ==
  /\ Cardinality(selectedLineIds) = MAX_SELECTED
  /\ "line:SYTNEX:T1" \in selectedLineIds
  /\ LineIds \ selectedLineIds # {}

\* ------------------------------------------------------------------------
\* Properties of the API client
\* ------------------------------------------------------------------------
\* The requests of a call that ask for a line in a direction.
RequestsFor(reqs, lineId, direction) ==
  {j \in DOMAIN reqs : reqs[j].lineId = lineId /\ reqs[j].direction = direction}

\* The vehicles the requests returned, each with the line and the direction
\* of the request that returned it, in the order of the requests.
ReturnedBy(reqs, replies) ==
  Flat([j \in DOMAIN reqs |->
          IF replies[j].ok /\ replies[j].array
            THEN [k \in DOMAIN replies[j].items |->
                    [id |-> replies[j].items[k].id,
                     lineId |-> reqs[j].lineId,
                     direction |-> reqs[j].direction]]
            ELSE <<>>])

\* C13: fetchVehiclePositions issues exactly one request for each line of
\* its list in each direction and no other; every vehicle of its result
\* carries the line and the direction of the request that returned it,
\* also for lines whose identifier starts with another's (C1 and C13); for
\* an empty list it issues no request and returns an empty list.
C13_OneRequestPerLineAndDirection ==
  returned # None =>
    LET lineIds == call[1].lineIds
        settled == returned[1].settled
        reqs == settled.requests
    IN  /\ Len(reqs) = 2 * Len(lineIds)
        /\ \A k \in DOMAIN lineIds : \A d \in {"outward", "return"} :
             Cardinality(RequestsFor(reqs, lineIds[k], d)) = 1
        /\ ~settled.rejected
        /\ settled.value = ReturnedBy(reqs, returned[1].replies)
        /\ \A k \in DOMAIN settled.value :
             /\ settled.value[k].lineId = settled.value[k].id[1]
             /\ settled.value[k].direction = settled.value[k].id[2]
        /\ lineIds = <<>> => reqs = <<>> /\ settled.value = <<>>

\* Lines C1 and C13 were asked for together and both directions of both
\* returned a vehicle.
C13_Witness ==
  /\ returned # None
  /\ call[1].lineIds = <<"line:SYTNEX:C1", "line:SYTNEX:C13">>
  /\ Len(returned[1].settled.value) = 4

Detached(s) == DOMAIN s.registry \ DOMAIN s.widget

\* C31: an operation of the engine on a marker the widget no longer holds is
\* skipped.  When the page is left the map has gone, with every marker, before
\* the marker layer's teardown runs: the teardown then calls remove on none of
\* the markers of its registry, and still empties the registry.
C31_DetachedMarkerSkipped ==
  [][op' = "pageunmount" =>
       /\ \A i \in Detached(mapRemove(Engine)) :
             CountCalls(calls', "remove", i) = 0
       /\ registry' = NoMarkers]_vars

\* ------------------------------------------------------------------------
\* Properties of the route drawer
\* ------------------------------------------------------------------------
\* C32: drawRoute adds or removes stop markers, terminus markers and line
\* layers only while the viewport is settled: between a transition-start and
\* its transition-end the drawer's markers and layers stay as they are.
C32_DrawsOnlyWhileSettled ==
  [][moving > 0 => (markers' = markers /\ layerIds' = layerIds)]_vars

\* ------------------------------------------------------------------------
\* Properties of the polling
\* ------------------------------------------------------------------------
\* C34: once the page's watcher has run, a poll timer exists if and only if
\* at least one line is selected.
C34_PollingIffSelected ==
  ~WatcherPending => (pollTimer <=> selectedLineIds # {})

\* Two lines are selected, the watcher has seen both, and the timer runs.
C34_Witness ==
  /\ ~WatcherPending
  /\ watched = 2
  /\ Cardinality(selectedLineIds) = 2
  /\ pollTimer

\* C35: at most one interval timer exists, and isPolling is true exactly
\* when it does (the store then holds its handle); a startPolling call made
\* while the timer exists, as the watcher makes when the count of selected
\* lines changes to another positive count, creates no timer and issues no
\* fetch.
C35_AtMostOneTimer ==
  [][/\ intervals' <= 1
     /\ isPolling' <=> intervals' = 1
     /\ pollTimer' <=> intervals' = 1
     /\ (watched' # watched /\ watched' > 0 /\ pollTimer) =>
          /\ intervals' = intervals
          /\ inflight' = inflight
          /\ storeVehicles' = storeVehicles]_vars

\* The watcher has run with two lines selected, after it had run with one or
\* with three: startPolling was called while the timer existed.
C35_Witness ==
  /\ watched = 2
  /\ ~WatcherPending
  /\ pollTimer
  /\ isPolling
  /\ intervals = 1

\* ------------------------------------------------------------------------
\* Properties of the route cache
\* ------------------------------------------------------------------------
\* C36: whenever a line is in the selection its route geometry is cached or
\* a fetch for it has been issued, whichever operation selected it.
C36_SelectedLineHasRouteOrFetch ==
  selectedLineIds \subseteq (lineRoutes \cup routeFetches)

\* ------------------------------------------------------------------------
\* Properties of the buffer of the gate
\* ------------------------------------------------------------------------
\* C37: a snapshot is buffered only while the gate is Busy, and the buffer
\* is empty right after every transition-end signal.
C37_BufferedOnlyWhileBusy ==
  /\ pendingVehicles # None => mapBusy
  /\ op = "moveend" => pendingVehicles = None

\* A transition-end signal has just replayed the buffered snapshot of two
\* fixes: the gate is Idle and the buffer is empty.
C37_Witness ==
  /\ op = "moveend"
  /\ ~mapBusy
  /\ Reconciled
  /\ Len(applied[1]) = 2
  /\ pendingVehicles = None

============================================================================
